---- MODULE Spec2Model ----
(***************************************************************************)
(* A small-step model of the Luma tree-walking interpreter                 *)
(* (src/src/interpreter.cpp): the environment chain, statement execution,  *)
(* function calls, maybe/otherwise, and the module loader with its cache   *)
(* and its currently-loading set.                                          *)
(*                                                                         *)
(* The C++ call stack (execute -> executeBlock -> execute ...) is the      *)
(* variable `stack`; a C++ exception in flight (std::runtime_error or the  *)
(* ReturnSignal) is the variable `sig`.  Heap objects (Environment,        *)
(* LumaMap) live in the sequences `envs` and `maps` and are referred to by *)
(* their index, which models shared_ptr identity.  Numbers are modelled as *)
(* integers.                                                               *)
(***************************************************************************)
EXTENDS Integers, Sequences, FiniteSets, TLC

VARIABLES
  envs,             \* heap of Environment objects: [vals, enclosing]
  env_,             \* Interpreter::env_, the current environment
  maps,             \* heap of LumaMap objects: [values]
  objects,          \* heap of the other shared objects: LumaInstance [klass,
                    \* fields], List [elements]; a Function or LumaClass is
                    \* [name], its contents being carried by its values
  stack,            \* the C++ call stack of the evaluator (activations)
  sig,              \* the exception in flight: none, error, return
  out,              \* std::cout, the values printed so far
  moduleCache_,     \* Interpreter::moduleCache_ : moduleId -> MapPtr
  moduleAstCache_,  \* Interpreter::moduleAstCache_ : moduleIds whose AST is kept
  modulesLoading_,  \* Interpreter::modulesLoading_ : set of moduleIds
  currentExports_,  \* Interpreter::currentExports_ : MapPtr (0 = null)
  currentModuleId_, \* Interpreter::currentModuleId_
  inModuleLoad_,    \* Interpreter::inModuleLoad_
  suite,            \* the family of programs this interpreter is given
  programs,         \* the parsed programs of that family, parsed once
  nRun,             \* number of programs handed to run so far
  bodyRuns,         \* history: moduleId -> number of times its body was started
  bodyDone,         \* history: moduleId -> number of times its body completed
  callLog,          \* history: the Function calls completed, with their results
  lastError,        \* the message of the last error that reached the top level
  front,            \* main: where the front end stands (idle, lex, parse, done, failed)
  source_,          \* Lexer::source_, the characters of the source text
  tokens_,          \* Parser::tokens_
  current_,         \* Parser::current_ (from 1)
  ast               \* Parser::parse, the declarations appended so far

vars == <<envs, env_, maps, objects, stack, sig, out, moduleCache_, moduleAstCache_,
          modulesLoading_, currentExports_, currentModuleId_, inModuleLoad_,
          suite, programs, nRun, bodyRuns, bodyDone, callLog, lastError,
          front, source_, tokens_, current_, ast>>

\* Number of programs (REPL lines) one interpreter is given.
MaxRuns == 2

\* Length of the source texts given to the lexer, and number of pieces of
\* the token sequences given to the parser.
MaxSource == 5
MaxPieces == 3

\* The global environment is the first Environment the constructor makes.
globals_ == 1

-----------------------------------------------------------------------------
(* Values (value.hpp)                                                      *)

Nil == [t |-> "nil"]
\* A Number (double) is a multiple of one half: v counts the halves.
Halves(h) == [t |-> "num", v |-> h]
Num(n) == Halves(2 * n)
Str(s) == [t |-> "str", v |-> s]   \* s is a sequence of characters
Bool(b) == [t |-> "bool", v |-> b]
Function(name, params, body, closure) ==
  [t |-> "fn", name |-> name, params |-> params, body |-> body, closure |-> closure]
NativeFunctionObject(name, arity) == [t |-> "native", name |-> name, arity |-> arity]
LumaClass(name, methods) == [t |-> "class", name |-> name, methods |-> methods]
MapPtr(ref) == [t |-> "map", ref |-> ref]
InstancePtr(ref) == [t |-> "instance", ref |-> ref]
ListPtr(ref) == [t |-> "list", ref |-> ref]
List(elements) == [elements |-> elements]
\* std::make_shared of a Function or LumaClass: the value is the object with
\* the address `id` it was allocated at.
shared(id, object) == ("id" :> id) @@ object
LumaInstance(klass) == [klass |-> klass, fields |-> <<>>]

\* static_cast<int> of a double in the range of int: truncation toward zero
toInt(number) ==
  IF number.v >= 0 THEN number.v \div 2 ELSE 0 - ((0 - number.v) \div 2)

isNil(v) == v.t = "nil"

isTruthy(v) ==
  IF v.t = "nil" THEN FALSE
  ELSE IF v.t = "bool" THEN v.v
  ELSE TRUE

\* Equality that compares a Function or a Class by its contents.
valuesEqualByContents(a, b) ==
  IF a.t # b.t THEN isNil(a) /\ isNil(b)
  ELSE IF a.t \in {"fn", "class"} THEN [a EXCEPT !.id = 0] = [b EXCEPT !.id = 0]
  ELSE a = b

\* Natives are allocated once each, under different names.
valuesEqual(a, b) ==
  IF a.t # b.t THEN isNil(a) /\ isNil(b)
  ELSE IF isNil(a) /\ isNil(b) THEN TRUE
  ELSE IF a.t \in {"num", "str", "bool"} THEN a.v = b.v
  ELSE IF a.t = "fn" THEN a.id = b.id
  ELSE IF a.t = "list" THEN a.ref = b.ref
  ELSE IF a.t = "class" THEN a.id = b.id
  ELSE IF a.t = "instance" THEN a.ref = b.ref
  ELSE IF a.t = "map" THEN a.ref = b.ref
  ELSE IF a.t = "native" THEN a.name = b.name
  ELSE FALSE

\* Results of operations that may throw std::runtime_error.
Ok(v) == [ok |-> TRUE, v |-> v]
Err(msg) == [ok |-> FALSE, msg |-> msg]

-----------------------------------------------------------------------------
(* Environment (environment.hpp)                                           *)

EmptyVals == [n \in {} |-> Nil]

Environment(enclosing) == [vals |-> EmptyVals, enclosing |-> enclosing]

define(es, e, name, value) ==
  [es EXCEPT ![e].vals = (name :> value) @@ @]

RECURSIVE has(_, _, _)
has(es, e, name) ==
  IF name \in DOMAIN es[e].vals THEN TRUE
  ELSE IF es[e].enclosing # 0 THEN has(es, es[e].enclosing, name)
  ELSE FALSE

RECURSIVE get(_, _, _)
get(es, e, name) ==
  IF name \in DOMAIN es[e].vals THEN Ok(es[e].vals[name])
  ELSE IF es[e].enclosing # 0 THEN get(es, es[e].enclosing, name)
  ELSE Err("Undefined variable")

\* An assignment that rebinds the name in the frame it starts from.
assignInnermost(es, e, name, value) ==
  IF has(es, e, name) THEN Ok(define(es, e, name, value))
  ELSE Err("Undefined variable")

\* assign returns the heap after the assignment, or the error it throws.
RECURSIVE assign(_, _, _, _)
assign(es, e, name, value) ==
  IF name \in DOMAIN es[e].vals THEN Ok([es EXCEPT ![e].vals[name] = value])
  ELSE IF es[e].enclosing # 0 THEN assign(es, es[e].enclosing, name, value)
  ELSE Err("Undefined variable")

\* A statement `name = expr` that always binds in the current environment.
assignOrDefineShadowing(es, e, name, value) == define(es, e, name, value)

\* Interpreter::assignOrDefine on the current environment e.
assignOrDefine(es, e, name, value) ==
  IF has(es, e, name) THEN assign(es, e, name, value).v
  ELSE define(es, e, name, value)

-----------------------------------------------------------------------------
(* AST (ast.hpp)                                                           *)

LiteralExpr(v) == [k |-> "lit", v |-> v]
VariableExpr(name) == [k |-> "var", name |-> name]
UnaryExpr(op, right) == [k |-> "unary", op |-> op, right |-> right]
BinaryExpr(left, op, right) == [k |-> "binary", op |-> op, left |-> left, right |-> right]
CallExpr(callee, args) == [k |-> "call", callee |-> callee, args |-> args]
GetExpr(object, name) == [k |-> "get", object |-> object, name |-> name]
IndexExpr(object, index) == [k |-> "index", object |-> object, index |-> index]
IndexSetExpr(object, index, value) ==
  [k |-> "indexset", object |-> object, index |-> index, value |-> value]
SetExpr(object, name, value) ==
  [k |-> "set", object |-> object, name |-> name, value |-> value]
ListExpr(elements) == [k |-> "list", elements |-> elements]

ExprStmt(e) == [k |-> "expr", e |-> e]
PrintStmt(e) == [k |-> "print", e |-> e]
VarAssignStmt(name, e) == [k |-> "assign", name |-> name, e |-> e]
BlockStmt(stmts) == [k |-> "block", stmts |-> stmts]
IfStmt(cond, thenBranch, hasElse, elseBranch) ==
  [k |-> "if", cond |-> cond, thenBranch |-> thenBranch,
   hasElse |-> hasElse, elseBranch |-> elseBranch]
WhileStmt(cond, body) == [k |-> "while", cond |-> cond, body |-> body]
UntilStmt(cond, body) == [k |-> "until", cond |-> cond, body |-> body]
\* a return without a value carries the literal nil as e
ReturnStmt(hasValue, e) == [k |-> "return", hasValue |-> hasValue, e |-> e]
FuncDefStmt(name, params, body, visibility) ==
  [k |-> "def", name |-> name, params |-> params, body |-> body,
   visibility |-> visibility]
ClassStmt(name, methods, visibility) ==
  [k |-> "class", name |-> name, methods |-> methods, visibility |-> visibility]
EchoStmt(count, body) == [k |-> "echo", count |-> count, body |-> body]
SwapStmt(left, right) == [k |-> "swap", left |-> left, right |-> right]
MaybeStmt(tryBlock, hasOtherwise, otherwiseBlock) ==
  [k |-> "maybe", tryBlock |-> tryBlock, hasOtherwise |-> hasOtherwise,
   otherwiseBlock |-> otherwiseBlock]
ModuleStmt(moduleId) == [k |-> "module", moduleId |-> moduleId]
UseStmt(moduleId, alias) == [k |-> "use", moduleId |-> moduleId, alias |-> alias]

-----------------------------------------------------------------------------
(* Expression evaluation (Interpreter::evaluate), for expressions that     *)
(* make no call; a call is a step of its own (ExecCall).  A property       *)
(* access that binds a method gives the value allocated at the next free   *)
(* places; the step that evaluates it (ExecVarAssign) allocates them.      *)

requireNumber(v) == v.t = "num"

\* LumaClass::findMethod: whether the class has a method of that name.
findMethod(klass, name) == name \in DOMAIN klass.methods

\* A property access that finds a method and hands out the class's own
\* Function object.
bindMethodCached(method, id, closure) == method

\* GetExpr on an instance, a method found: a copy of the method allocated
\* at `id`, whose closure is the new environment `closure`.
bindMethod(method, id, closure) == [shared(id, method) EXCEPT !.closure = closure]

binaryOp(op, left, right) ==
  IF op = "+" THEN
    IF left.t = "num" /\ right.t = "num" THEN Ok(Halves(left.v + right.v))
    ELSE IF left.t = "str" /\ right.t = "str" THEN Ok(Str(left.v \o right.v))
    ELSE Err("Type error")
  ELSE IF op \in {"-", "*", "/", "<", "<=", ">", ">="} THEN
    IF ~requireNumber(left) \/ ~requireNumber(right) THEN Err("Type error")
    ELSE CASE op = "-" -> Ok(Halves(left.v - right.v))
           [] op = "*" -> Ok(Halves((left.v * right.v) \div 2))
           [] op = "/" -> IF right.v = 0 THEN Err("division by zero")
                          ELSE Ok(Halves((2 * left.v) \div right.v))
           [] op = "<" -> Ok(Bool(left.v < right.v))
           [] op = "<=" -> Ok(Bool(left.v <= right.v))
           [] op = ">" -> Ok(Bool(left.v > right.v))
           [] op = ">=" -> Ok(Bool(left.v >= right.v))
  ELSE IF op = "==" THEN Ok(Bool(valuesEqual(left, right)))
  ELSE IF op = "!=" THEN Ok(Bool(~valuesEqual(left, right)))
  ELSE Err("Unknown binary operator")

\* The std::string of a String value, as a name (one word).
keyOf(string) == string.v[1]

\* The element index a list subscript denotes: int idx = static_cast<int>(
\* index), bounds-checked.  The mutant checks the bounds before truncating.
subscriptUntruncated(elements, index) ==
  IF index.v < 0 \/ index.v > 2 * (Len(elements) - 1) \/ index.v % 2 # 0
  THEN Err("List index out of bounds.")
  ELSE Ok(toInt(index) + 1)

subscript(elements, index) ==
  IF toInt(index) < 0 \/ toInt(index) >= Len(elements)
  THEN Err("List index out of bounds.")
  ELSE Ok(toInt(index) + 1)

RECURSIVE evaluate(_, _, _, _)
evaluate(es, ms, e, x) ==
  CASE x.k = "lit" -> Ok(x.v)
    [] x.k = "var" -> get(es, e, x.name)
    [] x.k = "unary" ->
         LET right == evaluate(es, ms, e, x.right) IN
         IF ~right.ok THEN right
         ELSE IF x.op = "-" THEN
                IF requireNumber(right.v) THEN Ok(Halves(0 - right.v.v))
                ELSE Err("Type error")
         ELSE Ok(Bool(~isTruthy(right.v)))
    [] x.k = "binary" ->
         LET left == evaluate(es, ms, e, x.left) IN
         IF ~left.ok THEN left
         ELSE IF x.op = "or" THEN
                IF isTruthy(left.v) THEN left ELSE evaluate(es, ms, e, x.right)
         ELSE IF x.op = "and" THEN
                IF ~isTruthy(left.v) THEN left ELSE evaluate(es, ms, e, x.right)
         ELSE LET right == evaluate(es, ms, e, x.right) IN
              IF ~right.ok THEN right ELSE binaryOp(x.op, left.v, right.v)
    [] x.k = "get" ->
         LET object == evaluate(es, ms, e, x.object) IN
         IF ~object.ok THEN object
         ELSE IF object.v.t = "map" THEN
                IF x.name \in DOMAIN ms[object.v.ref].values
                THEN Ok(ms[object.v.ref].values[x.name])
                ELSE Err("Module has no exported member")
         ELSE IF object.v.t = "instance" THEN
                LET instance == objects[object.v.ref] IN
                IF x.name \in DOMAIN instance.fields THEN Ok(instance.fields[x.name])
                ELSE IF findMethod(instance.klass, x.name)
                THEN Ok(bindMethod(instance.klass.methods[x.name],
                                   Len(objects) + 1, Len(es) + 1))
                ELSE Err("Undefined property")
         ELSE Err("Only instances and modules have properties.")
    [] x.k = "index" ->
         LET object == evaluate(es, ms, e, x.object) IN
         IF ~object.ok THEN object
         ELSE LET index == evaluate(es, ms, e, x.index) IN
              IF ~index.ok THEN index
              ELSE IF object.v.t = "list" THEN
                     IF index.v.t # "num" THEN Err("List index must be a number.")
                     ELSE LET idx == subscript(objects[object.v.ref].elements, index.v) IN
                          IF ~idx.ok THEN idx
                          ELSE Ok(objects[object.v.ref].elements[idx.v])
              ELSE IF object.v.t = "map" THEN
                     IF index.v.t # "str" THEN Err("Map key must be a string.")
                     ELSE IF keyOf(index.v) \in DOMAIN ms[object.v.ref].values
                     THEN Ok(ms[object.v.ref].values[keyOf(index.v)])
                     ELSE Err("Undefined key")
              ELSE Err("Only lists and maps support subscription.")
    [] OTHER -> Err("Unknown expression type.")

RECURSIVE evaluateArgs(_, _, _, _)
evaluateArgs(es, ms, e, args) ==
  IF args = <<>> THEN Ok(<<>>)
  ELSE LET a == evaluate(es, ms, e, Head(args)) IN
       IF ~a.ok THEN a
       ELSE LET rest == evaluateArgs(es, ms, e, Tail(args)) IN
            IF ~rest.ok THEN rest ELSE Ok(<<a.v>> \o rest.v)

-----------------------------------------------------------------------------
(* Source files of modules.  A file is either unreadable, or text the      *)
(* lexer rejects, or a sequence of top-level declarations each of which    *)
(* the parser either accepts (giving a statement) or rejects.              *)

S(x) == LiteralExpr(Str(<<x>>))
N(n) == LiteralExpr(Num(n))
V(name) == VariableExpr(name)

Decl(stmt) == [ok |-> TRUE, stmt |-> stmt]
BadDecl == [ok |-> FALSE]
File(decls) == [openable |-> TRUE, lexError |-> FALSE, decls |-> decls]
LockedFile == [openable |-> FALSE, lexError |-> FALSE, decls |-> <<>>]
UnlexableFile == [openable |-> TRUE, lexError |-> TRUE, decls |-> <<>>]

\* The moduleIds of the programs and module files.
Mod ==
  [good |-> <<"app", "good">>,
   bad |-> <<"app", "bad">>,
   a |-> <<"app", "a">>,
   b |-> <<"app", "b">>,
   self |-> <<"app", "self">>,
   chain |-> <<"app", "chain">>,
   missing |-> <<"app", "missing">>,
   foox |-> <<"foo", "x">>,
   only |-> <<"app">>,
   locked |-> <<"app", "locked">>,
   lex |-> <<"app", "lex">>,
   perr |-> <<"app", "perr">>,
   probe |-> <<"app", "probe">>,
   outer |-> <<"app", "outer">>,
   ret |-> <<"app", "ret">>,
   leak |-> <<"app", "leak">>,
   keep |-> <<"app", "keep">>,
   time |-> <<"std", "time">>,
   uuid |-> <<"std", "uuid">>]

ModuleIds == {Mod[id] : id \in DOMAIN Mod}

\* Paths are <<mount root>> \o segments; the file extension is implicit.
FileSystem ==
  LET GoodSource == <<
        Decl(ModuleStmt(Mod.good)),
        Decl(PrintStmt(S("good"))),
        Decl(FuncDefStmt("f", <<>>, <<ReturnStmt(TRUE, N(1))>>, "open")),
        Decl(FuncDefStmt("g", <<>>, <<ReturnStmt(TRUE, N(2))>>, "closed")) >>

      BadSource == <<
        Decl(PrintStmt(S("bad"))),
        Decl(VarAssignStmt("x", BinaryExpr(N(1), "/", N(0)))),
        Decl(FuncDefStmt("never", <<>>, <<>>, "open")) >>

      ASource == <<
        Decl(UseStmt(Mod.b, "b")),
        Decl(FuncDefStmt("fa", <<>>, <<>>, "open")) >>

      BSource == <<
        Decl(UseStmt(Mod.a, "a")),
        Decl(FuncDefStmt("fb", <<>>, <<>>, "open")) >>

      SelfSource == <<
        Decl(MaybeStmt(<<UseStmt(Mod.self, "s")>>, TRUE, <<PrintStmt(S("cyc"))>>)),
        Decl(FuncDefStmt("h", <<>>, <<>>, "open")) >>

      ChainSource == <<
        Decl(UseStmt(Mod.good, "g2")),
        Decl(FuncDefStmt("viaChain", <<>>, <<ReturnStmt(TRUE, GetExpr(V("g2"), "f"))>>, "open")) >>

      PerrSource == <<
        Decl(PrintStmt(S("p1"))),
        BadDecl,
        Decl(FuncDefStmt("p2", <<>>, <<>>, "open")) >>

      ProbeSource == <<
        Decl(MaybeStmt(<<VarAssignStmt("y", V("loc")), PrintStmt(S("seen"))>>,
                       TRUE, <<PrintStmt(S("undef"))>>)),
        Decl(VarAssignStmt("b", V("len"))),
        Decl(FuncDefStmt("probe", <<>>, <<ReturnStmt(TRUE, N(1))>>, "open")) >>

      OuterSource == <<
        Decl(VarAssignStmt("loc", N(3))),
        Decl(UseStmt(Mod.probe, "i")) >>

      RetSource == <<
        Decl(PrintStmt(S("r1"))),
        Decl(ReturnStmt(TRUE, N(42))),
        Decl(PrintStmt(S("r2"))) >>

      \* def f() { return 1 }  x = f  y = 1  print(nowhere)
      LeakSource == <<
        Decl(FuncDefStmt("f", <<>>, <<ReturnStmt(TRUE, N(1))>>, "open")),
        Decl(VarAssignStmt("x", V("f"))),
        Decl(VarAssignStmt("y", N(1))),
        Decl(PrintStmt(V("nowhere"))) >>

      \* def f() { return 1 }  x = f  y = 1
      KeepSource == <<
        Decl(FuncDefStmt("f", <<>>, <<ReturnStmt(TRUE, N(1))>>, "open")),
        Decl(VarAssignStmt("x", V("f"))),
        Decl(VarAssignStmt("y", N(1))) >>

      TimeSource == <<
        Decl(FuncDefStmt("wait", <<>>, <<>>, "open")),
        Decl(FuncDefStmt("helper", <<>>, <<>>, "closed")),
        Decl(VarAssignStmt("counter", N(0))),
        Decl(BlockStmt(<<FuncDefStmt("nested", <<>>, <<>>, "open")>>)),
        Decl(ClassStmt("Clock", <<FuncDefStmt("init", <<>>, <<>>, "closed")>>, "open")),
        Decl(ClassStmt("Hidden", <<>>, "closed")) >>

      UuidSource == << Decl(ModuleStmt(Mod.uuid)) >>
  IN (<<"projectSrc", "good">> :> File(GoodSource)) @@
    (<<"projectSrc", "bad">> :> File(BadSource)) @@
    (<<"projectSrc", "a">> :> File(ASource)) @@
    (<<"projectSrc", "b">> :> File(BSource)) @@
    (<<"projectSrc", "self">> :> File(SelfSource)) @@
    (<<"projectSrc", "chain">> :> File(ChainSource)) @@
    (<<"projectSrc", "locked">> :> LockedFile) @@
    (<<"projectSrc", "lex">> :> UnlexableFile) @@
    (<<"projectSrc", "perr">> :> File(PerrSource)) @@
    (<<"projectSrc", "probe">> :> File(ProbeSource)) @@
    (<<"projectSrc", "outer">> :> File(OuterSource)) @@
    (<<"projectSrc", "ret">> :> File(RetSource)) @@
    (<<"projectSrc", "leak">> :> File(LeakSource)) @@
    (<<"projectSrc", "keep">> :> File(KeepSource)) @@
    (<<"stdlibRoot", "time">> :> File(TimeSource)) @@
    (<<"stdlibRoot", "uuid">> :> File(UuidSource))

-----------------------------------------------------------------------------
(* Parser::parse at the level of top-level declarations: a declaration     *)
(* that raises ParseError is dropped (synchronize) and parsing goes on.    *)

RECURSIVE parse(_)
parse(decls) ==
  IF decls = <<>> THEN <<>>
  ELSE IF Head(decls).ok THEN <<Head(decls).stmt>> \o parse(Tail(decls))
  ELSE parse(Tail(decls))

-----------------------------------------------------------------------------
(* Module loader (Interpreter::resolveModulePath, loadModule)              *)

\* A moduleId is the sequence of its identifier segments; the leading '@'
\* that the parser requires is implicit.
resolveModulePath(moduleId) ==
  LET mount == moduleId[1]
      rest == Tail(moduleId)
      basePath == IF mount = "std" THEN "stdlibRoot" ELSE "projectSrc"
      modulePath == <<basePath>> \o rest
  IN IF mount \notin {"std", "app"} THEN Err("Unknown module mount")
     ELSE IF rest = <<>> THEN Err("Module ID must have at least one component after mount.")
     ELSE IF modulePath \notin DOMAIN FileSystem THEN Err("Module file not found")
     ELSE Ok(modulePath)

\* Interpreter::injectNativeNatives: the native bindings of a moduleId.
injectNativeNatives(moduleId, values) ==
  IF moduleId = Mod.time
  THEN ("now" :> NativeFunctionObject("now", 0)) @@
       ("sleep" :> NativeFunctionObject("sleep", 1)) @@ values
  ELSE IF moduleId = Mod.uuid
  THEN ("v4" :> NativeFunctionObject("v4", 0)) @@
       ("nil" :> NativeFunctionObject("nil", 0)) @@
       ("is_valid" :> NativeFunctionObject("is_valid", 1)) @@
       ("parse" :> NativeFunctionObject("parse", 1)) @@
       ("stringify" :> NativeFunctionObject("stringify", 1)) @@ values
  ELSE values

\* A module environment that encloses the importer's current environment.
ImporterEnv(current) == current

\* A module environment that encloses nothing.
ModuleEnvDetached(current) == 0

\* Which environment a module body's fresh environment encloses.
ModuleEnvParent(current) == globals_

\* A loader that exports every top-level declaration.
ExportAll(visibility) == TRUE

\* Whether a top-level declaration of this visibility is copied to the exports.
Exported(visibility) == visibility = "open"

\* A loader that never finds a module in its cache.
cacheMiss(moduleId, cache) == FALSE

\* moduleCache_.find(moduleId) != moduleCache_.end()
cacheHit(moduleId, cache) == moduleId \in DOMAIN cache

\* A loader that never sees a load in progress.
neverLoading(moduleId, loading) == FALSE

\* modulesLoading_.count(moduleId)
isLoading(moduleId, loading) == moduleId \in loading

\* loadModule up to the point where the module body starts to execute:
\* the cached exports, or the error thrown, or the parsed program to execute;
\* `loading` is modulesLoading_ as that prefix leaves it.
loadModule(moduleId, cache, loading) ==
  IF cacheHit(moduleId, cache)
  THEN [k |-> "cached", exports |-> cache[moduleId], loading |-> loading]
  ELSE IF isLoading(moduleId, loading)
  THEN [k |-> "throw", msg |-> "Cyclic import detected", loading |-> loading]
  ELSE LET inserted == loading \cup {moduleId}
           path == resolveModulePath(moduleId)
       IN IF ~path.ok
          THEN [k |-> "throw", msg |-> path.msg, loading |-> inserted]
          ELSE LET file == FileSystem[path.v] IN
               IF ~file.openable
               THEN [k |-> "throw", msg |-> "Could not open module file",
                     loading |-> inserted \ {moduleId}]
               ELSE IF file.lexError
               THEN [k |-> "throw", msg |-> "Lex error", loading |-> inserted]
               ELSE [k |-> "exec", program |-> parse(file.decls),
                     loading |-> inserted]

-----------------------------------------------------------------------------
(* The evaluator as a machine.  An activation on `stack` is one of         *)
(*   run    Interpreter::run, the loop over the program                    *)
(*   block  Interpreter::executeBlock, with the environment to restore     *)
(*   loop   the while loop of a WhileStmt / UntilStmt                      *)
(*   echo   the for loop of an EchoStmt                                    *)
(*   maybe  the try / catch of a MaybeStmt                                 *)
(*   call   Interpreter::callFunction, which catches ReturnSignal          *)
(*   load   Interpreter::loadModule, the loop over the module's program    *)

NoSignal == [k |-> "none"]
RuntimeError(msg) == [k |-> "error", msg |-> msg]
\* std::bad_variant_access, thrown by std::get on a Value that holds another
\* alternative; it derives from std::exception, not from std::runtime_error.
BadVariantAccess == [k |-> "exception", msg |-> "bad variant access"]
\* The process has ended abnormally (a read of freed memory that faults).
Crash == [k |-> "crash"]
ReturnSignal(value) == [k |-> "return", value |-> value]

loaderVars == <<moduleCache_, moduleAstCache_, modulesLoading_, currentExports_,
                currentModuleId_, inModuleLoad_, bodyRuns, bodyDone>>
driverVars == <<suite, programs, nRun, lastError>>
frontVars == <<front, source_, tokens_, current_, ast>>

Top == stack[Len(stack)]
Pop == SubSeq(stack, 1, Len(stack) - 1)
HasCur ==
  /\ sig.k = "none"
  /\ Top.k \in {"run", "block", "load"}
  /\ Top.pc <= Len(Top.stmts)
Cur == Top.stmts[Top.pc]
Advance == [stack EXCEPT ![Len(stack)].pc = @ + 1]

\* The program (vector of statements) that owns the statement which the
\* activation stk[i] executes: the entry program, the program local to the
\* loadModule that runs a module body, or the program that a called
\* Function's body points into.
Main == <<"main">>
RECURSIVE programOf(_, _)
programOf(stk, i) ==
  IF stk[i].k = "load" THEN stk[i].moduleId
  ELSE IF stk[i].k = "call" THEN objects[stk[i].function.id].program
  ELSE IF stk[i].k = "init" THEN objects[stk[i].klass.methods["init"].id].program
  ELSE IF i = 1 THEN Main
  ELSE programOf(stk, i - 1)

\* Whether a program is still alive: the entry program, a program moved to
\* moduleAstCache_, or the local `program` of a loadModule still running.
retained(program) ==
  \/ program = Main
  \/ program \in moduleAstCache_
  \/ \E i \in DOMAIN stack : stack[i].k = "load" /\ stack[i].moduleId = program

RunFrame(program) == [k |-> "run", stmts |-> program, pc |-> 1]
BlockFrame(stmts, previous) ==
  [k |-> "block", stmts |-> stmts, pc |-> 1, previous |-> previous]

\* throw std::runtime_error(msg) from the statement being executed
Throw(msg) ==
  /\ sig' = RuntimeError(msg)
  /\ UNCHANGED <<frontVars, envs, env_, maps, objects, stack, out, callLog, loaderVars, driverVars>>

\* executeBlock(block, newEnv) called with the C++ stack `stk` below it
executeBlock(stk, stmts, newEnv) ==
  /\ env_' = newEnv
  /\ stack' = Append(stk, BlockFrame(stmts, env_))

\* std::make_shared<Environment>(parent): the heap after, the new object last
NewEnvironment(parent) == Append(envs, Environment(parent))

\* A statement whose expression is a call, or `l or r` / `l and r` with r a call.
IsLogicalCall(x) == x.k = "binary" /\ x.op \in {"or", "and"} /\ x.right.k = "call"

IsCallStmt(s) ==
  /\ s.k \in {"expr", "print", "assign", "return"}
  /\ (s.e.k = "call" \/ IsLogicalCall(s.e))

\* Whether evaluating x binds a method: x is a property access on an
\* instance that has no such field and whose class has such a method.
BindsMethod(x) ==
  /\ x.k = "get"
  /\ LET object == evaluate(envs, maps, env_, x.object) IN
     /\ object.ok /\ object.v.t = "instance"
     /\ x.name \notin DOMAIN objects[object.v.ref].fields
     /\ findMethod(objects[object.v.ref].klass, x.name)

ExecExpr ==
  /\ HasCur /\ Cur.k = "expr" /\ ~IsCallStmt(Cur) /\ Cur.e.k \notin {"set", "indexset"}
  /\ LET v == evaluate(envs, maps, env_, Cur.e) IN
     IF v.ok
     THEN /\ stack' = Advance
          /\ UNCHANGED <<frontVars, envs, env_, maps, objects, sig, out, callLog, loaderVars, driverVars>>
     ELSE Throw(v.msg)

ExecPrint ==
  /\ HasCur /\ Cur.k = "print" /\ ~IsCallStmt(Cur)
  /\ LET v == evaluate(envs, maps, env_, Cur.e) IN
     IF v.ok
     THEN /\ out' = Append(out, v.v)
          /\ stack' = Advance
          /\ UNCHANGED <<frontVars, envs, env_, maps, objects, sig, callLog, loaderVars, driverVars>>
     ELSE Throw(v.msg)

\* A list literal allocates, so it is evaluated here and not by `evaluate`:
\* it occurs only as the whole right-hand side of an assignment.
\* A map whose index-set writes to a copy of the LumaMap.
mapSetCopy(ms, ref, key, value) ==
  Append(ms, [values |-> (key :> value) @@ ms[ref].values])

\* map->values[key] = value on the LumaMap the MapPtr points to
mapSet(ms, ref, key, value) == [ms EXCEPT ![ref].values = (key :> value) @@ @]

\* IndexSetExpr as a statement: object[index] = value
ExecIndexSet ==
  /\ HasCur /\ Cur.k = "expr" /\ Cur.e.k = "indexset"
  /\ LET object == evaluate(envs, maps, env_, Cur.e.object)
         index == evaluate(envs, maps, env_, Cur.e.index)
         value == evaluate(envs, maps, env_, Cur.e.value)
     IN IF ~object.ok THEN Throw(object.msg)
        ELSE IF ~index.ok THEN Throw(index.msg)
        ELSE IF ~value.ok THEN Throw(value.msg)
        ELSE IF object.v.t = "list" THEN
               IF index.v.t # "num" THEN Throw("List index must be a number.")
               ELSE LET idx == subscript(objects[object.v.ref].elements, index.v) IN
                    IF ~idx.ok THEN Throw(idx.msg)
                    ELSE /\ objects' = [objects EXCEPT
                                          ![object.v.ref].elements[idx.v] = value.v]
                         /\ stack' = Advance
                         /\ UNCHANGED <<frontVars, envs, env_, maps, sig, out, callLog,
                                        loaderVars, driverVars>>
        ELSE IF object.v.t = "map" THEN
               IF index.v.t # "str" THEN Throw("Map key must be a string.")
               ELSE /\ maps' = mapSet(maps, object.v.ref, keyOf(index.v), value.v)
                    /\ stack' = Advance
                    /\ UNCHANGED <<frontVars, envs, env_, objects, sig, out, callLog,
                                   loaderVars, driverVars>>
        ELSE Throw("Only lists and maps support assignment.")

\* SetExpr as a statement: object.name = value
ExecSet ==
  /\ HasCur /\ Cur.k = "expr" /\ Cur.e.k = "set"
  /\ LET object == evaluate(envs, maps, env_, Cur.e.object) IN
     IF ~object.ok THEN Throw(object.msg)
     ELSE IF object.v.t # "instance" THEN Throw("Only instances have properties.")
     ELSE LET value == evaluate(envs, maps, env_, Cur.e.value) IN
          IF ~value.ok THEN Throw(value.msg)
          ELSE /\ objects' = [objects EXCEPT ![object.v.ref].fields =
                                                (Cur.e.name :> value.v) @@ @]
               /\ stack' = Advance
               /\ UNCHANGED <<frontVars, envs, env_, maps, sig, out, callLog, loaderVars,
                              driverVars>>

\* A property access that binds a method allocates, as a list literal does:
\* it occurs only as the whole right-hand side of an assignment.
ExecVarAssign ==
  /\ HasCur /\ Cur.k = "assign" /\ ~IsCallStmt(Cur)
  /\ IF BindsMethod(Cur.e)
     THEN LET object == evaluate(envs, maps, env_, Cur.e.object).v
              method == objects[object.ref].klass.methods[Cur.e.name]
              newEnv == define(NewEnvironment(method.closure), Len(envs) + 1,
                               "this", object)
          IN /\ objects' = Append(objects, [name |-> Cur.e.name,
                                            program |-> objects[method.id].program])
             /\ envs' = assignOrDefine(newEnv, env_, Cur.name,
                                       evaluate(envs, maps, env_, Cur.e).v)
             /\ stack' = Advance
             /\ UNCHANGED <<frontVars, env_, maps, sig, out, callLog, loaderVars, driverVars>>
     ELSE IF Cur.e.k = "list"
     THEN LET elements == evaluateArgs(envs, maps, env_, Cur.e.elements) IN
          IF elements.ok
          THEN /\ objects' = Append(objects, List(elements.v))
               /\ envs' = assignOrDefine(envs, env_, Cur.name, ListPtr(Len(objects) + 1))
               /\ stack' = Advance
               /\ UNCHANGED <<frontVars, env_, maps, sig, out, callLog, loaderVars, driverVars>>
          ELSE Throw(elements.msg)
     ELSE LET v == evaluate(envs, maps, env_, Cur.e) IN
          IF v.ok
          THEN /\ envs' = assignOrDefine(envs, env_, Cur.name, v.v)
               /\ stack' = Advance
               /\ UNCHANGED <<frontVars, env_, maps, objects, sig, out, callLog, loaderVars,
                              driverVars>>
          ELSE Throw(v.msg)

ExecBlock ==
  /\ HasCur /\ Cur.k = "block"
  /\ envs' = NewEnvironment(env_)
  /\ executeBlock(Advance, Cur.stmts, Len(envs) + 1)
  /\ UNCHANGED <<frontVars, maps, objects, sig, out, callLog, loaderVars, driverVars>>

\* The branch an IfStmt runs: an else-if chain is executed directly, in the
\* same environment, until a block is chosen or the chain ends.
RECURSIVE selectBranch(_, _, _, _)
selectBranch(es, ms, e, i) ==
  LET cond == evaluate(es, ms, e, i.cond) IN
  IF ~cond.ok THEN cond
  ELSE IF isTruthy(cond.v) THEN Ok([run |-> TRUE, stmts |-> i.thenBranch])
  ELSE IF i.hasElse
  THEN IF i.elseBranch.k = "block"
       THEN Ok([run |-> TRUE, stmts |-> i.elseBranch.stmts])
       ELSE selectBranch(es, ms, e, i.elseBranch)
  ELSE Ok([run |-> FALSE, stmts |-> <<>>])

ExecIf ==
  /\ HasCur /\ Cur.k = "if"
  /\ LET b == selectBranch(envs, maps, env_, Cur) IN
     IF ~b.ok THEN Throw(b.msg)
     ELSE IF b.v.run
     THEN /\ envs' = NewEnvironment(env_)
          /\ executeBlock(Advance, b.v.stmts, Len(envs) + 1)
          /\ UNCHANGED <<frontVars, maps, objects, sig, out, callLog, loaderVars, driverVars>>
     ELSE /\ stack' = Advance
          /\ UNCHANGED <<frontVars, envs, env_, maps, objects, sig, out, callLog, loaderVars, driverVars>>

\* A loop whose body runs in the loop's own scope.
LoopScopeEnv(outer, fresh) == outer

\* The environment one iteration of a loop body runs in: the fresh child
\* of the loop's scope.
IterationEnv(outer, fresh) == fresh

ExecWhile ==
  /\ HasCur /\ Cur.k \in {"while", "until"}
  /\ stack' = Append(Advance, [k |-> "loop", cond |-> Cur.cond, body |-> Cur.body,
                               until |-> (Cur.k = "until"), entry |-> env_])
  /\ UNCHANGED <<frontVars, envs, env_, maps, objects, sig, out, callLog, loaderVars, driverVars>>

LoopIter ==
  /\ sig.k = "none" /\ Top.k = "loop"
  /\ LET c == evaluate(envs, maps, env_, Top.cond) IN
     IF ~c.ok THEN Throw(c.msg)
     ELSE IF isTruthy(c.v) # Top.until
     THEN /\ envs' = NewEnvironment(env_)
          /\ executeBlock(stack, Top.body, IterationEnv(env_, Len(envs) + 1))
          /\ UNCHANGED <<frontVars, maps, objects, sig, out, callLog, loaderVars, driverVars>>
     ELSE /\ stack' = Pop
          /\ UNCHANGED <<frontVars, envs, env_, maps, objects, sig, out, callLog, loaderVars, driverVars>>

ExecEcho ==
  /\ HasCur /\ Cur.k = "echo"
  /\ LET countVal == evaluate(envs, maps, env_, Cur.count) IN
     IF ~countVal.ok THEN Throw(countVal.msg)
     ELSE IF countVal.v.t # "num" THEN Throw("Echo count must be a number.")
     ELSE IF toInt(countVal.v) < 0 THEN Throw("Echo count cannot be negative.")
     ELSE /\ stack' = Append(Advance, [k |-> "echo", body |-> Cur.body, i |-> 0,
                                       count |-> toInt(countVal.v), entry |-> env_])
          /\ UNCHANGED <<frontVars, envs, env_, maps, objects, sig, out, callLog, loaderVars, driverVars>>

EchoIter ==
  /\ sig.k = "none" /\ Top.k = "echo"
  /\ IF Top.i < Top.count
     THEN /\ envs' = NewEnvironment(env_)
          /\ executeBlock([stack EXCEPT ![Len(stack)].i = @ + 1], Top.body,
                          IterationEnv(env_, Len(envs) + 1))
          /\ UNCHANGED <<frontVars, maps, objects, sig, out, callLog, loaderVars, driverVars>>
     ELSE /\ stack' = Pop
          /\ UNCHANGED <<frontVars, envs, env_, maps, objects, sig, out, callLog, loaderVars, driverVars>>

ExecReturn ==
  /\ HasCur /\ Cur.k = "return" /\ ~IsCallStmt(Cur)
  /\ LET v == IF Cur.hasValue THEN evaluate(envs, maps, env_, Cur.e) ELSE Ok(Nil) IN
     IF v.ok
     THEN /\ sig' = ReturnSignal(v.v)
          /\ UNCHANGED <<frontVars, envs, env_, maps, objects, stack, out, callLog, loaderVars, driverVars>>
     ELSE Throw(v.msg)

\* The environment a FuncDefStmt captures as the function's closure.
FuncDefClosure(current) == current

ExecFuncDef ==
  /\ HasCur /\ Cur.k = "def"
  /\ LET fn == shared(Len(objects) + 1,
                      Function(Cur.name, Cur.params, Cur.body, FuncDefClosure(env_)))
     IN
     /\ objects' = Append(objects, [name |-> Cur.name,
                                    program |-> programOf(stack, Len(stack))])
     /\ envs' = define(envs, env_, Cur.name, fn)
        \* loadModule: after a top-level open def, copy its binding to the exports
     /\ maps' = IF Top.k = "load" /\ Exported(Cur.visibility)
                THEN [maps EXCEPT ![currentExports_].values = (Cur.name :> fn) @@ @]
                ELSE maps
  /\ stack' = Advance
  /\ UNCHANGED <<frontVars, env_, sig, out, callLog, loaderVars, driverVars>>

\* Interpreter::visitClassStmt: the class value a ClassStmt binds.
\* The i-th method's Function is allocated at base + i, the class after them.
visitClassStmt(stmt, e, base) ==
  LET names == {stmt.methods[i].name : i \in DOMAIN stmt.methods}
      last(n) == CHOOSE i \in DOMAIN stmt.methods :
                   /\ stmt.methods[i].name = n
                   /\ \A j \in DOMAIN stmt.methods : j > i => stmt.methods[j].name # n
  IN shared(base + Len(stmt.methods) + 1,
       LumaClass(stmt.name,
                 [n \in names |->
                    shared(base + last(n),
                           Function(n, stmt.methods[last(n)].params,
                                    stmt.methods[last(n)].body, e))]))

ExecClass ==
  /\ HasCur /\ Cur.k = "class"
  /\ LET klass == visitClassStmt(Cur, env_, Len(objects)) IN
     /\ objects' = objects \o [i \in 1..(Len(Cur.methods) + 1) |->
                                 [name |-> IF i <= Len(Cur.methods)
                                           THEN Cur.methods[i].name ELSE Cur.name,
                                  program |-> programOf(stack, Len(stack))]]
     /\ envs' = define(envs, env_, Cur.name, klass)
     /\ maps' = IF Top.k = "load" /\ Exported(Cur.visibility)
                THEN [maps EXCEPT ![currentExports_].values = (Cur.name :> klass) @@ @]
                ELSE maps
  /\ stack' = Advance
  /\ UNCHANGED <<frontVars, env_, sig, out, callLog, loaderVars, driverVars>>

\* A mis-ordered swap: the right value is read after the left was assigned.
swapSequential(es, e, left, right) ==
  LET leftVal == get(es, e, left)
      rightVal == get(es, e, right)
  IN IF ~leftVal.ok THEN leftVal
     ELSE IF ~rightVal.ok THEN rightVal
     ELSE LET es1 == assign(es, e, left, rightVal.v).v
          IN Ok(assign(es1, e, right, get(es1, e, left).v).v)

\* SwapStmt: read both, then assign both; the heap after, or the error.
swap(es, e, left, right) ==
  LET leftVal == get(es, e, left)
      rightVal == get(es, e, right)
  IN IF ~leftVal.ok THEN leftVal
     ELSE IF ~rightVal.ok THEN rightVal
     ELSE Ok(assign(assign(es, e, left, rightVal.v).v, e, right, leftVal.v).v)

ExecSwap ==
  /\ HasCur /\ Cur.k = "swap"
  /\ LET r == swap(envs, env_, Cur.left, Cur.right) IN
     IF r.ok
     THEN /\ envs' = r.v
          /\ stack' = Advance
          /\ UNCHANGED <<frontVars, env_, maps, objects, sig, out, callLog, loaderVars, driverVars>>
     ELSE Throw(r.msg)

ExecMaybe ==
  /\ HasCur /\ Cur.k = "maybe"
  /\ envs' = NewEnvironment(env_)
  /\ executeBlock(Append(Advance, [k |-> "maybe", phase |-> "try",
                                   hasOtherwise |-> Cur.hasOtherwise,
                                   otherwiseBlock |-> Cur.otherwiseBlock,
                                   entry |-> env_]),
                  Cur.tryBlock, Len(envs) + 1)
  /\ UNCHANGED <<frontVars, maps, objects, sig, out, callLog, loaderVars, driverVars>>

\* A MaybeStmt with catch (...): it also catches the ReturnSignal.
MaybeCatchesAll(signal) == signal.k \in {"error", "return"}

\* catch (const std::runtime_error &) of a MaybeStmt
MaybeCatches(signal) == signal.k = "error"

MaybeCatch ==
  /\ Top.k = "maybe" /\ Top.phase = "try" /\ MaybeCatches(sig)
  /\ sig' = NoSignal
  /\ IF Top.hasOtherwise
     THEN /\ envs' = NewEnvironment(env_)
          /\ executeBlock([stack EXCEPT ![Len(stack)].phase = "otherwise"],
                          Top.otherwiseBlock, Len(envs) + 1)
     ELSE /\ stack' = Pop
          /\ UNCHANGED <<frontVars, envs, env_>>
  /\ UNCHANGED <<frontVars, maps, objects, out, callLog, loaderVars, driverVars>>

MaybeExit ==
  /\ Top.k = "maybe" /\ sig.k = "none"
  /\ stack' = Pop
  /\ UNCHANGED <<frontVars, envs, env_, maps, objects, sig, out, callLog, loaderVars, driverVars>>

ExecModule ==
  /\ HasCur /\ Cur.k = "module"
  /\ currentModuleId_' = Cur.moduleId
  /\ stack' = Advance
  /\ UNCHANGED <<frontVars, envs, env_, maps, objects, sig, out, callLog, moduleCache_, moduleAstCache_,
                 modulesLoading_, currentExports_, inModuleLoad_, bodyRuns, bodyDone,
                 driverVars>>

\* UseStmt: exports = loadModule(moduleId); env_->define(alias, exports)
ExecUse ==
  /\ HasCur /\ Cur.k = "use"
  /\ LET r == loadModule(Cur.moduleId, moduleCache_, modulesLoading_) IN
     CASE r.k = "cached" ->
            /\ envs' = define(envs, env_, Cur.alias, MapPtr(r.exports))
            /\ stack' = Advance
            /\ UNCHANGED <<frontVars, env_, maps, objects, sig, out, callLog, loaderVars, driverVars>>
       [] r.k = "throw" ->
            /\ sig' = RuntimeError(r.msg)
            /\ modulesLoading_' = r.loading
            /\ UNCHANGED <<frontVars, envs, env_, maps, objects, stack, out, callLog, moduleCache_,
                           moduleAstCache_, currentExports_, currentModuleId_,
                           inModuleLoad_, bodyRuns, bodyDone, driverVars>>
       [] r.k = "exec" ->
            /\ modulesLoading_' = r.loading
            /\ envs' = NewEnvironment(ModuleEnvParent(env_))
            /\ env_' = Len(envs) + 1
            /\ maps' = Append(maps, [values |-> EmptyVals])
            /\ currentExports_' = Len(maps) + 1
            /\ currentModuleId_' = <<>>
            /\ inModuleLoad_' = TRUE
            /\ stack' = Append(Advance,
                 [k |-> "load", moduleId |-> Cur.moduleId, alias |-> Cur.alias,
                  stmts |-> r.program, pc |-> 1,
                  savedEnv |-> env_, savedExports |-> currentExports_,
                  savedModuleId |-> currentModuleId_,
                  savedInModuleLoad |-> inModuleLoad_])
            /\ bodyRuns' = [bodyRuns EXCEPT ![Cur.moduleId] = @ + 1]
            /\ UNCHANGED <<frontVars, objects, sig, out, callLog, moduleCache_, moduleAstCache_,
                           bodyDone, driverVars>>

\* loadModule after the body ran to its end: cache, restore, inject natives;
\* then the UseStmt binds the alias.
LoadFinish ==
  /\ sig.k = "none" /\ Top.k = "load" /\ Top.pc > Len(Top.stmts)
  /\ moduleCache_' = (Top.moduleId :> currentExports_) @@ moduleCache_
  /\ moduleAstCache_' = moduleAstCache_ \cup {Top.moduleId}
  /\ env_' = Top.savedEnv
  /\ currentExports_' = Top.savedExports
  /\ currentModuleId_' = Top.savedModuleId
  /\ inModuleLoad_' = Top.savedInModuleLoad
  /\ modulesLoading_' = modulesLoading_ \ {Top.moduleId}
  /\ maps' = [maps EXCEPT ![currentExports_].values =
                             injectNativeNatives(Top.moduleId, @)]
  /\ envs' = define(envs, Top.savedEnv, Top.alias, MapPtr(currentExports_))
  /\ stack' = Pop
  /\ bodyDone' = [bodyDone EXCEPT ![Top.moduleId] = @ + 1]
  /\ UNCHANGED <<frontVars, objects, sig, out, callLog, bodyRuns, driverVars>>

\* loadModule's catch (...) around the body: restore, erase, rethrow
LoadUnwind ==
  /\ sig.k \notin {"none", "crash"} /\ Top.k = "load"
  /\ env_' = Top.savedEnv
  /\ currentExports_' = Top.savedExports
  /\ currentModuleId_' = Top.savedModuleId
  /\ inModuleLoad_' = Top.savedInModuleLoad
  /\ modulesLoading_' = modulesLoading_ \ {Top.moduleId}
  /\ stack' = Pop
  /\ UNCHANGED <<frontVars, envs, maps, objects, sig, out, callLog, moduleCache_, moduleAstCache_,
                 bodyRuns, bodyDone, driverVars>>

-----------------------------------------------------------------------------
(* Calls (CallExpr in Interpreter::evaluate, Interpreter::callFunction).   *)
(* In the programs of this model a call is the whole expression of an      *)
(* ExprStmt, PrintStmt, VarAssignStmt or ReturnStmt, and its callee and    *)
(* arguments make no call.                                                 *)

\* What the statement does with the value of its call.
Dest(s) ==
  CASE s.k = "expr" -> [k |-> "discard"]
    [] s.k = "print" -> [k |-> "print"]
    [] s.k = "assign" -> [k |-> "assign", name |-> s.name]
    [] s.k = "return" -> [k |-> "return"]

\* The rest of the statement once its call has produced v, the C++ stack
\* being stk and the current environment the caller's again.
Deliver(dest, v, stk) ==
  /\ stack' = stk
  /\ envs' = IF dest.k = "assign" THEN assignOrDefine(envs, env_, dest.name, v)
             ELSE envs
  /\ out' = IF dest.k = "print" THEN Append(out, v) ELSE out
  /\ sig' = IF dest.k = "return" THEN ReturnSignal(v) ELSE NoSignal

\* Natives of the global environment (Interpreter::Interpreter).
GlobalNatives ==
  ("len" :> NativeFunctionObject("len", 1)) @@
  ("push" :> NativeFunctionObject("push", 2)) @@
  ("pop" :> NativeFunctionObject("pop", 1)) @@
  ("keys" :> NativeFunctionObject("keys", 1)) @@
  ("remove" :> NativeFunctionObject("remove", 2))

\* nativeLen on the values of this model
nativeLen(ms, args) ==
  IF args[1].t = "map" THEN Ok(Num(Cardinality(DOMAIN ms[args[1].ref].values)))
  ELSE IF args[1].t = "str" THEN Ok(Num(Len(args[1].v)))
  ELSE Err("Object has no length (only list, map, string).")

\* nativeUuidStringify: nil gives the nil UUID; otherwise std::get<MapPtr> of
\* the argument, then std::get<std::string> of values["string"], which
\* operator[] inserts as nil when the map has no such key.
nativeUuidStringify(ms, args) ==
  IF isNil(args[1])
  THEN [maps |-> ms, sig |-> NoSignal, v |-> Str(<<"00000000-0000-0000-0000-000000000000">>)]
  ELSE IF args[1].t # "map"
  THEN [maps |-> ms, sig |-> BadVariantAccess, v |-> Nil]
  ELSE LET ref == args[1].ref
           touched == IF "string" \in DOMAIN ms[ref].values THEN ms
                      ELSE [ms EXCEPT ![ref].values = ("string" :> Nil) @@ @]
           held == touched[ref].values["string"]
       IN IF held.t = "str"
          THEN [maps |-> touched, sig |-> NoSignal, v |-> held]
          ELSE [maps |-> touched, sig |-> BadVariantAccess, v |-> Nil]

\* A call whose environment encloses a copy of the closure made at the call.
callEnvironmentSnapshot(es, function) ==
  Append(Append(es, es[function.closure]), Environment(Len(es) + 1))

\* std::make_shared<Environment>(function->closure): the heap after the
\* allocation, the call's environment being its last object.
callEnvironment(es, function) == Append(es, Environment(function.closure))

\* Binding the parameters to the arguments taken in reverse order.
bindParamsReversed(es, e, params, args) ==
  [es EXCEPT ![e].vals =
     [n \in {params[i] : i \in DOMAIN params} |->
        args[Len(args) + 1 - (CHOOSE i \in DOMAIN params : params[i] = n)]] @@ @]

\* environment->define(params[i], args[i]) for every parameter
RECURSIVE bindParams(_, _, _, _)
bindParams(es, e, params, args) ==
  IF params = <<>> THEN es
  ELSE bindParams(define(es, e, Head(params), Head(args)), e, Tail(params), Tail(args))

\* What a class call evaluates to when init returned with `signal`
\* (no signal: init ran to its end, or the class has no init).
constructedReturned(instance, signal) ==
  IF signal.k = "return" THEN signal.value ELSE InstancePtr(instance)

constructed(instance, signal) == InstancePtr(instance)

\* Whether `left op right` is decided by the value of left alone.
shortCircuitsC(op, left) ==
  LET falsy == left \in {Nil, Bool(FALSE), Num(0), Str(<<>>)} IN
  IF op = "or" THEN ~falsy ELSE falsy

shortCircuits(op, left) == IF op = "or" THEN isTruthy(left) ELSE ~isTruthy(left)

\* BinaryExpr Or / And whose right operand is a call: the value is left's,
\* or else what remains to evaluate is the right operand.
ExecLogical ==
  /\ HasCur /\ IsCallStmt(Cur) /\ IsLogicalCall(Cur.e)
  /\ LET left == evaluate(envs, maps, env_, Cur.e.left) IN
     IF ~left.ok THEN Throw(left.msg)
     ELSE IF shortCircuits(Cur.e.op, left.v)
     THEN /\ Deliver(Dest(Cur), left.v, Advance)
          /\ UNCHANGED <<frontVars, env_, maps, objects, callLog, loaderVars, driverVars>>
     ELSE /\ stack' = [stack EXCEPT ![Len(stack)].stmts[Top.pc].e = Cur.e.right]
          /\ UNCHANGED <<frontVars, envs, env_, maps, objects, sig, out, callLog, loaderVars,
                         driverVars>>

\* A call of a Function whose body points into a program that was
\* destroyed reads freed memory: the body may still be read as it was
\* (ExecCall), or the read faults.
CallDangling ==
  /\ HasCur /\ IsCallStmt(Cur) /\ Cur.e.k = "call"
  /\ LET callee == evaluate(envs, maps, env_, Cur.e.callee)
         args == evaluateArgs(envs, maps, env_, Cur.e.args)
     IN /\ callee.ok /\ args.ok /\ callee.v.t = "fn"
        /\ Len(args.v) = Len(callee.v.params)
        /\ ~retained(objects[callee.v.id].program)
  /\ sig' = Crash
  /\ UNCHANGED <<frontVars, envs, env_, maps, objects, stack, out, callLog, loaderVars,
                 driverVars>>

ExecCall ==
  /\ HasCur /\ IsCallStmt(Cur) /\ Cur.e.k = "call"
  /\ LET callee == evaluate(envs, maps, env_, Cur.e.callee)
         args == evaluateArgs(envs, maps, env_, Cur.e.args)
     IN IF ~callee.ok THEN Throw(callee.msg)
        ELSE IF ~args.ok THEN Throw(args.msg)
        ELSE IF callee.v.t = "fn" THEN
               IF Len(args.v) # Len(callee.v.params) THEN Throw("Arity mismatch")
               ELSE LET heap == callEnvironment(envs, callee.v) IN
                    /\ envs' = bindParams(heap, Len(heap), callee.v.params, args.v)
                    /\ executeBlock(Append(Advance, [k |-> "call", dest |-> Dest(Cur),
                                                     function |-> callee.v,
                                                     entry |-> env_]),
                                    callee.v.body, Len(heap))
                    /\ UNCHANGED <<frontVars, maps, objects, sig, out, callLog, loaderVars, driverVars>>
        ELSE IF callee.v.t = "native" /\ callee.v.name = "len" THEN
               IF Len(args.v) # callee.v.arity THEN Throw("Arity mismatch")
               ELSE LET r == nativeLen(maps, args.v) IN
                    IF ~r.ok THEN Throw(r.msg)
                    ELSE /\ Deliver(Dest(Cur), r.v, Advance)
                         /\ UNCHANGED <<frontVars, env_, maps, objects, callLog, loaderVars, driverVars>>
        ELSE IF callee.v.t = "native" /\ callee.v.name = "stringify" THEN
               IF Len(args.v) # callee.v.arity THEN Throw("Arity mismatch")
               ELSE LET r == nativeUuidStringify(maps, args.v) IN
                    /\ maps' = r.maps
                    /\ IF r.sig.k = "none"
                       THEN Deliver(Dest(Cur), r.v, Advance)
                       ELSE /\ sig' = r.sig
                            /\ UNCHANGED <<frontVars, envs, stack, out>>
                    /\ UNCHANGED <<frontVars, env_, objects, callLog, loaderVars, driverVars>>
        ELSE IF callee.v.t = "native" THEN
               \* the other natives are outside this model
               FALSE
        ELSE IF callee.v.t = "class" THEN
               LET instance == Len(objects) + 1
                   made == Append(objects, LumaInstance(callee.v))
               IN IF findMethod(callee.v, "init") THEN
                    LET init == callee.v.methods["init"]
                        environment == Len(envs) + 1
                        bound == define(NewEnvironment(init.closure), environment,
                                        "this", InstancePtr(instance))
                    IN IF Len(args.v) # Len(init.params)
                       THEN Throw("Expected arguments")
                       ELSE /\ objects' = made
                            /\ envs' = bindParams(bound, environment, init.params, args.v)
                            /\ executeBlock(Append(Advance,
                                              [k |-> "init", dest |-> Dest(Cur),
                                               klass |-> callee.v, instance |-> instance,
                                               entry |-> env_]),
                                            init.body, environment)
                            /\ UNCHANGED <<frontVars, maps, sig, out, callLog, loaderVars, driverVars>>
                  ELSE IF args.v # <<>> THEN Throw("Expected 0 arguments")
                  ELSE /\ objects' = made
                       /\ Deliver(Dest(Cur), constructed(instance, NoSignal), Advance)
                       /\ callLog' = Append(callLog, [name |-> callee.v.name, closure |-> 0,
                                                      value |-> InstancePtr(instance)])
                       /\ UNCHANGED <<frontVars, env_, maps, loaderVars, driverVars>>
        ELSE Throw("Can only call functions and classes.")

\* callFunction returns: the caught ReturnSignal's value, or Nil
CallReturn ==
  /\ Top.k = "call" /\ sig.k \in {"none", "return"}
  /\ LET v == IF sig.k = "return" THEN sig.value ELSE Nil IN
     /\ Deliver(Top.dest, v, Pop)
     /\ callLog' = Append(callLog, [name |-> Top.function.name,
                                    closure |-> Top.function.closure, value |-> v])
  /\ UNCHANGED <<frontVars, env_, maps, objects, loaderVars, driverVars>>

\* callFunction on a class returns: init ran to its end or its ReturnSignal
\* was caught and dropped; the call's value is the instance.
InitReturn ==
  /\ Top.k = "init" /\ sig.k \in {"none", "return"}
  /\ LET v == constructed(Top.instance, sig) IN
     /\ Deliver(Top.dest, v, Pop)
     /\ callLog' = Append(callLog, [name |-> Top.klass.name, closure |-> 0, value |-> v])
  /\ UNCHANGED <<frontVars, env_, maps, objects, loaderVars, driverVars>>

\* executeBlock ends: env_ = previous
BlockExit ==
  /\ sig.k = "none" /\ Top.k = "block" /\ Top.pc > Len(Top.stmts)
  /\ env_' = Top.previous
  /\ stack' = Pop
  /\ UNCHANGED <<frontVars, envs, maps, objects, sig, out, callLog, loaderVars, driverVars>>

\* The environment executeBlock's catch (...) makes current before it rethrows.
unwoundLeaking(previous, current) == current

unwound(previous, current) == previous

\* executeBlock's catch (...): env_ = previous; throw
BlockUnwind ==
  /\ sig.k \notin {"none", "crash"} /\ Top.k = "block"
  /\ env_' = unwound(Top.previous, env_)
  /\ stack' = Pop
  /\ UNCHANGED <<frontVars, envs, maps, objects, sig, out, callLog, loaderVars, driverVars>>

\* An exception passes an activation that has no handler for it.
Propagate ==
  /\ sig.k \notin {"none", "crash"}
  /\ \/ Top.k \in {"loop", "echo"}
     \/ Top.k \in {"call", "init"} /\ sig.k \in {"error", "exception"}
     \/ Top.k = "maybe" /\ (Top.phase = "otherwise" \/ ~MaybeCatches(sig))
  /\ stack' = Pop
  /\ UNCHANGED <<frontVars, envs, env_, maps, objects, sig, out, callLog, loaderVars, driverVars>>

-----------------------------------------------------------------------------
(* Programs.  One interpreter is given up to MaxRuns programs of one       *)
(* suite, one after the other (the REPL of main.c runs each line on the    *)
(* same interpreter, and an error ends only that line).                    *)

Call0(name) == CallExpr(V(name), <<>>)

-----------------------------------------------------------------------------
(* Parser (parser.cpp) on tokens, for the token types Def, Print,          *)
(* Identifier, String, LeftParen, RightParen, LeftBrace, RightBrace,       *)
(* Equal, Comma, Semicolon and Eof.  p is Parser::current_ (from 1).  A    *)
(* result is the node built and the position reached, or the position at   *)
(* which ParseError was thrown.  A lexeme is the sequence of characters    *)
(* of the token, quotes included for a String.                             *)

Token(type, lexeme) == [type |-> type, lexeme |-> lexeme]

Parsed(v, p) == [ok |-> TRUE, v |-> v, p |-> p]
ParseError(p) == [ok |-> FALSE, p |-> p]

\* check(type): false at Eof.  consume(type, message) is check, then
\* advance or ParseError at the current position.
check(ts, p, type) == ts[p].type # "Eof" /\ ts[p].type = type

\* unquoteStringLexeme: without the two quotes, each escape replaced by the
\* character it denotes; a backslash that ends the text stays.
unquoteStringLexeme(lexeme) ==
  LET RECURSIVE unescape(_)
      unescape(inner) ==
        IF inner = <<>> THEN <<>>
        ELSE IF Head(inner) = "\\" /\ Len(inner) >= 2 THEN
               LET next == inner[2]
                   rest == unescape(SubSeq(inner, 3, Len(inner)))
               IN CASE next = "n" -> <<"\n">> \o rest
                    [] next = "r" -> <<"\r">> \o rest
                    [] next = "t" -> <<"\t">> \o rest
                    [] next = "\\" -> <<"\\">> \o rest
                    [] next = "\"" -> <<"\"">> \o rest
                    [] OTHER -> <<"\\", next>> \o rest
        ELSE <<Head(inner)>> \o unescape(Tail(inner))
  IN IF Len(lexeme) >= 2 /\ Head(lexeme) = "\"" /\ lexeme[Len(lexeme)] = "\""
     THEN unescape(SubSeq(lexeme, 2, Len(lexeme) - 1))
     ELSE lexeme

RECURSIVE expression(_, _)

\* A map literal needs Colon tokens, which these inputs do not have: only
\* `{ }` parses.  A grouping yields the expression it encloses.
primary(ts, p) ==
  IF check(ts, p, "String") THEN Parsed(LiteralExpr(Str(unquoteStringLexeme(ts[p].lexeme))), p + 1)
  ELSE IF check(ts, p, "Identifier") THEN Parsed(VariableExpr(ts[p].lexeme), p + 1)
  ELSE IF check(ts, p, "LeftBrace") THEN
         IF check(ts, p + 1, "RightBrace") THEN Parsed([k |-> "map"], p + 2)
         ELSE LET key == expression(ts, p + 1) IN
              IF key.ok THEN ParseError(key.p) ELSE key
  ELSE IF check(ts, p, "LeftParen") THEN
         LET e == expression(ts, p + 1) IN
         IF ~e.ok THEN e
         ELSE IF check(ts, e.p, "RightParen") THEN Parsed(e.v, e.p + 1)
         ELSE ParseError(e.p)
  ELSE ParseError(p)

call(ts, p) ==
  LET RECURSIVE arguments(_, _)
      arguments(args, q) ==
        LET a == expression(ts, q) IN
        IF ~a.ok THEN a
        ELSE IF check(ts, a.p, "Comma") THEN arguments(Append(args, a.v), a.p + 1)
        ELSE Parsed(Append(args, a.v), a.p)
      RECURSIVE calls(_, _)
      calls(expr, q) ==
        IF ~check(ts, q, "LeftParen") THEN Parsed(expr, q)
        ELSE LET args == IF check(ts, q + 1, "RightParen") THEN Parsed(<<>>, q + 1)
                         ELSE arguments(<<>>, q + 1)
             IN IF ~args.ok THEN args
                ELSE IF check(ts, args.p, "RightParen")
                THEN calls(CallExpr(expr, args.v), args.p + 1)
                ELSE ParseError(args.p)
      callee == primary(ts, p)
  IN IF callee.ok THEN calls(callee.v, callee.p) ELSE callee

\* logicalOr ... unary: these inputs have no operator tokens
expression(ts, p) == call(ts, p)

\* match({Semicolon})
semicolon(ts, p) == IF check(ts, p, "Semicolon") THEN p + 1 ELSE p

printStatement(ts, p) ==
  IF ~check(ts, p, "LeftParen") THEN ParseError(p)
  ELSE LET value == expression(ts, p + 1) IN
       IF ~value.ok THEN value
       ELSE IF ~check(ts, value.p, "RightParen") THEN ParseError(value.p)
       ELSE Parsed(PrintStmt(value.v), semicolon(ts, value.p + 1))

assignmentOrExprStatement(ts, p) ==
  LET expr == expression(ts, p) IN
  IF ~expr.ok THEN expr
  ELSE IF check(ts, expr.p, "Equal") THEN
         LET value == expression(ts, expr.p + 1) IN
         IF ~value.ok THEN value
         ELSE IF expr.v.k = "var"
         THEN Parsed(VarAssignStmt(expr.v.name, value.v), semicolon(ts, value.p))
         ELSE ParseError(semicolon(ts, value.p))
  ELSE Parsed(ExprStmt(expr.v), semicolon(ts, expr.p))

statement(ts, p) ==
  IF check(ts, p, "Print") THEN printStatement(ts, p + 1)
  ELSE assignmentOrExprStatement(ts, p)

RECURSIVE declaration(_, _)

block(ts, p) ==
  LET RECURSIVE stmts(_, _)
      stmts(done, q) ==
        IF check(ts, q, "RightBrace") \/ ts[q].type = "Eof" THEN Parsed(done, q)
        ELSE LET d == declaration(ts, q) IN
             IF d.ok THEN stmts(Append(done, d.v), d.p) ELSE d
  IN IF ~check(ts, p, "LeftBrace") THEN ParseError(p)
     ELSE LET body == stmts(<<>>, p + 1) IN
          IF ~body.ok THEN body
          ELSE IF check(ts, body.p, "RightBrace") THEN Parsed(body.v, body.p + 1)
          ELSE ParseError(body.p)

functionDeclaration(ts, p, vis) ==
  LET RECURSIVE parameters(_, _)
      parameters(params, q) ==
        IF ~check(ts, q, "Identifier") THEN ParseError(q)
        ELSE IF check(ts, q + 1, "Comma")
        THEN parameters(Append(params, ts[q].lexeme), q + 2)
        ELSE Parsed(Append(params, ts[q].lexeme), q + 1)
  IN IF ~check(ts, p, "Identifier") THEN ParseError(p)
     ELSE IF ~check(ts, p + 1, "LeftParen") THEN ParseError(p + 1)
     ELSE LET params == IF check(ts, p + 2, "RightParen") THEN Parsed(<<>>, p + 2)
                        ELSE parameters(<<>>, p + 2)
          IN IF ~params.ok THEN params
             ELSE IF ~check(ts, params.p, "RightParen") THEN ParseError(params.p)
             ELSE LET body == block(ts, params.p + 1) IN
                  IF ~body.ok THEN body
                  ELSE Parsed(FuncDefStmt(ts[p].lexeme, params.v, body.v, vis), body.p)

classDeclaration(ts, p, vis) ==
  LET RECURSIVE methods(_, _)
      methods(done, q) ==
        IF check(ts, q, "RightBrace") \/ ts[q].type = "Eof" THEN Parsed(done, q)
        ELSE IF ~check(ts, q, "Def") THEN ParseError(q)
        ELSE LET m == functionDeclaration(ts, q + 1, "closed") IN
             IF m.ok THEN methods(Append(done, m.v), m.p) ELSE m
  IN IF ~check(ts, p, "Identifier") THEN ParseError(p)
     ELSE IF ~check(ts, p + 1, "LeftBrace") THEN ParseError(p + 1)
     ELSE LET body == methods(<<>>, p + 2) IN
          IF ~body.ok THEN body
          ELSE IF check(ts, body.p, "RightBrace")
          THEN Parsed(ClassStmt(ts[p].lexeme, body.v, vis), body.p + 1)
          ELSE ParseError(body.p)

\* Parser::declaration, for token sequences without Module and Use.  vis is
\* Closed unless an Open token was matched; the error is raised for Open only.
declaration(ts, p) ==
  LET vis == IF check(ts, p, "Open") THEN "open" ELSE "closed"
      q == IF check(ts, p, "Open") \/ check(ts, p, "Closed") THEN p + 1 ELSE p
  IN IF check(ts, q, "Def") THEN functionDeclaration(ts, q + 1, vis)
     ELSE IF check(ts, q, "Class") THEN classDeclaration(ts, q + 1, vis)
     ELSE IF vis = "open" THEN ParseError(q)
     ELSE statement(ts, q)

\* A synchronize that skips nothing.
synchronizeInPlace(ts, p) == p

\* Parser::synchronize, from the position of the error: the position at
\* which parsing resumes.
synchronize(ts, p) ==
  LET RECURSIVE skip(_)
      skip(q) ==
        IF ts[q].type = "Eof" THEN q
        ELSE IF ts[q - 1].type = "Semicolon" THEN q
        ELSE IF ts[q].type \in {"Def", "Class", "If", "While", "Return", "Print", "Else",
                                "Module", "Use", "Open", "Closed"} THEN q
        ELSE skip(q + 1)
  IN IF ts[p].type = "Eof" THEN p ELSE skip(p + 1)

\* Parser::parse
parseTokens(ts) ==
  LET RECURSIVE declarations(_, _)
      declarations(stmts, p) ==
        IF ts[p].type = "Eof" THEN stmts
        ELSE LET d == declaration(ts, p) IN
             IF d.ok THEN declarations(Append(stmts, d.v), d.p)
             ELSE declarations(stmts, synchronize(ts, d.p))
  IN declarations(<<>>, 1)

\* Source texts as sequences of top-level declarations, each with its
\* tokens, whether it is well formed, and the statement it denotes.
\*   print("a")    x = "v"    print(x)    def f() { print("b") }    f()
\*   def broken( { print("inner") }      print( ;      def g() { y = }
Sources ==
  LET T(type) == Token(type, type)
      Id(name) == Token("Identifier", name)
      Text(x) == Token("String", <<"\"", x, "\"">>)
      Show(e) == <<T("Print"), T("LeftParen")>> \o e \o <<T("RightParen")>>
      Def(name) == <<T("Def"), Id(name), T("LeftParen")>>
      Good(tokens, stmt) == [tokens |-> tokens, wellFormed |-> TRUE, stmt |-> stmt]
      Bad(tokens) == [tokens |-> tokens, wellFormed |-> FALSE]
      PrintA == Good(Show(<<Text("a")>>), PrintStmt(S("a")))
      SetX == Good(<<Id("x"), T("Equal"), Text("v")>>, VarAssignStmt("x", S("v")))
      PrintX == Good(Show(<<Id("x")>>), PrintStmt(V("x")))
      DefF == Good(Def("f") \o <<T("RightParen"), T("LeftBrace")>>
                     \o Show(<<Text("b")>>) \o <<T("RightBrace")>>,
                   FuncDefStmt("f", <<>>, <<PrintStmt(S("b"))>>, "closed"))
      CallF == Good(<<Id("f"), T("LeftParen"), T("RightParen")>>, ExprStmt(Call0("f")))
      Broken == Bad(Def("broken") \o <<T("LeftBrace")>> \o Show(<<Text("inner")>>)
                      \o <<T("RightBrace")>>)
      Cut == Bad(<<T("Print"), T("LeftParen"), T("Semicolon")>>)
      DefG == Bad(Def("g") \o <<T("RightParen"), T("LeftBrace"), Id("y"), T("Equal"),
                               T("RightBrace")>>)
  IN { <<PrintA, SetX, PrintX>>, <<DefF, CallF, PrintA>>, <<PrintA, Cut, PrintA>>,
       <<Cut>>, <<Broken, PrintA>>, <<DefG, SetX, PrintX>>, <<PrintA, DefG>> }

\* The tokens of such a source text, Eof at the end.
RECURSIVE tokensOf(_)
tokensOf(source) ==
  IF source = <<>> THEN <<Token("Eof", "")>>
  ELSE Head(source).tokens \o tokensOf(Tail(source))

-----------------------------------------------------------------------------
(* Lexer, for source texts made of the characters ( ) { } , ; = space ",   *)
(* backslash and lower-case letters.  A source text and a lexeme are       *)
(* sequences of characters; start is Lexer::start_ (from 1).  A result is  *)
(* the tokens added and the position reached, or the message of the        *)
(* std::runtime_error thrown.                                              *)

Lexed(tokens, next) == [ok |-> TRUE, tokens |-> tokens, next |-> next]
LexError(message) == [ok |-> FALSE, message |-> message]

\* The literal ends at the first double quote, whatever precedes it.
stringLiteral(source, start) ==
  LET RECURSIVE closing(_)
      closing(i) == IF i > Len(source) \/ source[i] = "\"" THEN i ELSE closing(i + 1)
      end == closing(start + 1)
  IN IF end > Len(source) THEN LexError("Unterminated string")
     ELSE Lexed(<<Token("String", SubSeq(source, start, end))>>, end + 1)

scanToken(source, start) ==
  LET kKeywords ==
        (<<"d", "e", "f">> :> "Def") @@ (<<"r", "e", "t", "u", "r", "n">> :> "Return") @@
        (<<"i", "f">> :> "If") @@ (<<"e", "l", "s", "e">> :> "Else") @@
        (<<"w", "h", "i", "l", "e">> :> "While") @@ (<<"t", "r", "u", "e">> :> "True") @@
        (<<"f", "a", "l", "s", "e">> :> "False") @@ (<<"n", "i", "l">> :> "Nil") @@
        (<<"p", "r", "i", "n", "t">> :> "Print") @@ (<<"e", "c", "h", "o">> :> "Echo") @@
        (<<"m", "a", "y", "b", "e">> :> "Maybe") @@
        (<<"o", "t", "h", "e", "r", "w", "i", "s", "e">> :> "Otherwise") @@
        (<<"u", "n", "t", "i", "l">> :> "Until") @@ (<<"c", "l", "a", "s", "s">> :> "Class") @@
        (<<"t", "h", "i", "s">> :> "This")
      isAlpha(ch) ==
        ch \in {"a", "b", "c", "d", "e", "f", "g", "h", "i", "j", "k", "l", "m", "n", "o",
               "p", "q", "r", "s", "t", "u", "v", "w", "x", "y", "z", "_"}
      identifierOrKeyword ==
        LET RECURSIVE word(_)
            word(i) == IF i <= Len(source) /\ isAlpha(source[i]) THEN word(i + 1) ELSE i
            end == word(start + 1)
            text == SubSeq(source, start, end - 1)
        IN Lexed(<<Token(IF text \in DOMAIN kKeywords THEN kKeywords[text] ELSE "Identifier",
                         text)>>, end)
      c == source[start]
      one(type) == Lexed(<<Token(type, <<c>>)>>, start + 1)
  IN CASE c = "(" -> one("LeftParen")
       [] c = ")" -> one("RightParen")
       [] c = "{" -> one("LeftBrace")
       [] c = "}" -> one("RightBrace")
       [] c = "," -> one("Comma")
       [] c = ";" -> one("Semicolon")
       [] c = "=" -> IF start < Len(source) /\ source[start + 1] = "="
                     THEN Lexed(<<Token("EqualEqual", <<c, c>>)>>, start + 2)
                     ELSE one("Equal")
       [] c = " " -> Lexed(<<>>, start + 1)
       [] c = "\"" -> stringLiteral(source, start)
       [] OTHER -> IF isAlpha(c) THEN identifierOrKeyword
                   ELSE LexError("Unexpected character")

\* Lexer::scanTokens
scanTokens(source) ==
  LET RECURSIVE scan(_, _)
      scan(tokens, start) ==
        IF start > Len(source) THEN Lexed(Append(tokens, Token("Eof", <<>>)), start)
        ELSE LET t == scanToken(source, start) IN
             IF t.ok THEN scan(tokens \o t.tokens, t.next) ELSE t
  IN scan(<<>>, 1)

Suites ==
  {"cache", "loaderr", "export", "closure", "loop", "swap", "maybe", "class", "return",
   "scope", "call", "equal", "logic", "parse", "property",
   "index", "echo", "retain", "shared", "globals", "maybereturn"}

Programs(s) ==
  LET
    Use(moduleId) == <<UseStmt(moduleId, "m")>>
    Probe(name, miss) == MaybeStmt(<<PrintStmt(V(name))>>, TRUE, <<PrintStmt(S(miss))>>)

    CachePrograms == {
      Use(Mod.good), Use(Mod.bad), Use(Mod.a), Use(Mod.self), Use(Mod.chain),
      <<UseStmt(Mod.good, "m"), UseStmt(Mod.good, "n")>> }

    LoadErrorPrograms == {
      Use(Mod.missing), Use(Mod.foox), Use(Mod.only), Use(Mod.locked), Use(Mod.lex),
      Use(Mod.perr),
      <<MaybeStmt(<<UseStmt(Mod.bad, "m")>>, FALSE, <<>>), UseStmt(Mod.bad, "m")>>,
      <<MaybeStmt(<<UseStmt(Mod.lex, "m")>>, TRUE, <<PrintStmt(S("lexcaught"))>>)>>,
      <<MaybeStmt(<<UseStmt(Mod.perr, "m")>>, TRUE, <<PrintStmt(S("perrcaught"))>>)>> }

    ExportPrograms == {
      <<BlockStmt(<<VarAssignStmt("loc", N(5)), UseStmt(Mod.probe, "m")>>)>>,
      <<FuncDefStmt("imp", <<"loc">>, <<UseStmt(Mod.probe, "m")>>, "closed"),
        ExprStmt(CallExpr(V("imp"), <<N(7)>>))>>,
      <<VarAssignStmt("loc", N(1)), UseStmt(Mod.probe, "m")>>,
      Use(Mod.outer),
      <<UseStmt(Mod.time, "t"), PrintStmt(CallExpr(V("len"), <<V("t")>>))>> }

    DefMake ==
      FuncDefStmt("make", <<>>,
        <<VarAssignStmt("i", N(0)),
          FuncDefStmt("inc", <<>>,
            <<VarAssignStmt("i", BinaryExpr(V("i"), "+", N(1))),
              ReturnStmt(TRUE, V("i"))>>, "closed"),
          ReturnStmt(TRUE, V("inc"))>>, "closed")

    ClosurePrograms == {
      <<DefMake, VarAssignStmt("f", Call0("make")), VarAssignStmt("g", Call0("make"))>>,
      <<PrintStmt(Call0("f")), PrintStmt(Call0("g")), PrintStmt(Call0("f"))>>,
      <<ReturnStmt(TRUE, Call0("g"))>>,
      <<VarAssignStmt("h", V("f")), VarAssignStmt("r", Call0("h")), PrintStmt(V("r"))>> }

    \* The name t is bound only inside loop bodies.
    LoopPrograms == {
      <<VarAssignStmt("i", N(0)),
        WhileStmt(BinaryExpr(V("i"), "<", N(2)),
          <<Probe("t", "fresh"), VarAssignStmt("t", V("i")),
            VarAssignStmt("i", BinaryExpr(V("i"), "+", N(1)))>>),
        Probe("t", "gone")>>,
      <<VarAssignStmt("j", N(0)),
        UntilStmt(BinaryExpr(V("j"), ">=", N(2)),
          <<IfStmt(BinaryExpr(V("j"), "==", N(0)), <<VarAssignStmt("t", N(1))>>,
                   TRUE, IfStmt(LiteralExpr(Bool(FALSE)), <<>>, TRUE,
                                BlockStmt(<<VarAssignStmt("t", N(2))>>))),
            Probe("t", "fresh"),
            VarAssignStmt("j", BinaryExpr(V("j"), "+", N(1)))>>),
        PrintStmt(V("t"))>>,
      <<EchoStmt(N(2), <<Probe("t", "fresh"), VarAssignStmt("t", N(7))>>),
        Probe("t", "gone")>>,
      <<EchoStmt(UnaryExpr("-", N(1)), <<VarAssignStmt("t", N(7))>>)>>,
      <<FuncDefStmt("stop", <<>>, <<WhileStmt(LiteralExpr(Bool(TRUE)),
                                      <<VarAssignStmt("t", N(1)), ReturnStmt(FALSE, LiteralExpr(Nil))>>)>>,
                    "closed"),
        ExprStmt(Call0("stop")), Probe("t", "gone")>> }

    SwapPrograms == {
      <<VarAssignStmt("a", N(1)), VarAssignStmt("b", N(2)), SwapStmt("a", "b")>>,
      <<SwapStmt("a", "a"), ExprStmt(V("a"))>>,
      <<SwapStmt("a", "zz")>>,
      <<SwapStmt("zz", "a")>>,
      <<BlockStmt(<<VarAssignStmt("c", N(3)), SwapStmt("a", "c")>>)>>,
      <<FuncDefStmt("sw", <<"p">>, <<SwapStmt("p", "b")>>, "closed"),
        ExprStmt(CallExpr(V("sw"), <<N(9)>>))>> }

    DefBoom == FuncDefStmt("boom", <<>>, <<VarAssignStmt("q", V("nowhere"))>>, "closed")
    \* maybe { print(first); body; print("t2") } [otherwise { print("caught") }]
    \* print("after")
    Attempt(first, body, hasOtherwise) ==
      <<MaybeStmt(<<PrintStmt(S(first))>> \o body \o <<PrintStmt(S("t2"))>>,
                  hasOtherwise, IF hasOtherwise THEN <<PrintStmt(S("caught"))>> ELSE <<>>),
        PrintStmt(S("after"))>>

    MaybePrograms == {
      Attempt("t1", <<VarAssignStmt("x", BinaryExpr(N(1), "/", N(0)))>>, TRUE),
      Attempt("u1", <<VarAssignStmt("x", BinaryExpr(N(1), "/", N(0)))>>, FALSE),
      Attempt("n1", <<VarAssignStmt("x", BinaryExpr(N(4), "/", N(2)))>>, TRUE),
      <<DefBoom>> \o Attempt("t1", <<ExprStmt(Call0("boom"))>>, TRUE),
      <<DefBoom>> \o Attempt("t1", <<ExprStmt(CallExpr(V("boom"), <<N(1)>>))>>, TRUE),
      Attempt("t1", <<UseStmt(Mod.foox, "m")>>, TRUE),
      Attempt("u1", <<ExprStmt(Call0("x"))>>, FALSE),
      Attempt("u1", <<PrintStmt(BinaryExpr(N(1), "+", S("one")))>>, FALSE),
      Attempt("t1", <<ExprStmt(CallExpr(N(3), <<>>))>>, TRUE),
      Attempt("t1", <<UseStmt(Mod.time, "m"), ExprStmt(GetExpr(V("m"), "zz"))>>, TRUE),
      <<UseStmt(Mod.uuid, "u")>>
        \o Attempt("n1", <<VarAssignStmt("z", CallExpr(GetExpr(V("u"), "stringify"),
                                                      <<LiteralExpr(Nil)>>))>>, TRUE),
      <<UseStmt(Mod.uuid, "u")>>
        \o Attempt("t1", <<ExprStmt(CallExpr(GetExpr(V("u"), "stringify"), <<N(5)>>))>>,
                   TRUE),
      <<UseStmt(Mod.uuid, "u")>>
        \o Attempt("t1", <<ExprStmt(CallExpr(GetExpr(V("u"), "stringify"), <<V("u")>>))>>,
                   TRUE) }

    \* class Plain { }   class Made { def init(p) { print("init") return 42 } }
    \* class Quiet { def init() { } }   class Bad { def init() { q = nowhere } }
    \* each followed by x = <class>(<arguments>)
    ClassPrograms ==
      LET Class(name, params, body) ==
            ClassStmt(name, <<FuncDefStmt("init", params, body, "closed")>>, "closed")
          DefPlain == ClassStmt("Plain", <<>>, "closed")
          DefMade == Class("Made", <<"p">>,
                           <<PrintStmt(S("init")), ReturnStmt(TRUE, N(42)),
                             PrintStmt(S("unreached"))>>)
          DefQuiet == Class("Quiet", <<>>, <<>>)
          DefBad == Class("Bad", <<>>, <<VarAssignStmt("q", V("nowhere"))>>)
          New(name, args) == VarAssignStmt("x", CallExpr(V(name), args))
      IN { <<DefPlain, New("Plain", <<>>)>>,
           <<DefPlain, New("Plain", <<N(1)>>)>>,
           <<DefMade, New("Made", <<N(7)>>), PrintStmt(S("done"))>>,
           <<DefMade, New("Made", <<>>)>>,
           <<DefMade, New("Made", <<N(1), N(2)>>)>>,
           <<DefQuiet, New("Quiet", <<>>), New("Quiet", <<>>)>>,
           <<DefBad, New("Bad", <<>>)>> }

    \* Programs every one of which executes a `return` that is in no function
    \* body: at the top level, in a block, a loop, a maybe block, and at the top
    \* level of the module app.ret, loaded from the top level, from a function
    \* body and from an init.  No function body here holds a return statement.
    ReturnPrograms ==
      LET Ret == ReturnStmt(TRUE, N(1)) IN
      { <<PrintStmt(S("top")), Ret, PrintStmt(S("unreached"))>>,
        <<BlockStmt(<<ReturnStmt(FALSE, N(0))>>)>>,
        <<WhileStmt(LiteralExpr(Bool(TRUE)), <<Ret>>)>>,
        <<MaybeStmt(<<Ret>>, TRUE, <<PrintStmt(S("retcaught"))>>)>>,
        <<UseStmt(Mod.ret, "m")>>,
        <<FuncDefStmt("imp", <<>>, <<UseStmt(Mod.ret, "m"), PrintStmt(S("unreached"))>>,
                      "closed"),
          VarAssignStmt("x", Call0("imp")), PrintStmt(V("x"))>>,
        <<ClassStmt("Imp", <<FuncDefStmt("init", <<>>, <<UseStmt(Mod.ret, "m")>>, "closed")>>,
                    "closed"),
          VarAssignStmt("x", Call0("Imp")), PrintStmt(S("made"))>> }

    \* Blocks, loops, maybe statements, calls, instantiations and module loads
    \* started in an environment other than the global one and ended normally,
    \* by return and by error.
    \*   { def f() { while true { maybe { return 1 } } }  x = f() }
    \*   { def g() { { z = nowhere } }  maybe { x = g() } otherwise { print("e") } }
    \*   { class K { def init() { echo 2 { return 1 } } }  x = K() }
    \*   { class L { def init() { z = nowhere } }  x = L() }
    \*   { if true { use @app.bad as m } }
    \*   { def h() { use @app.good as r  return r.f() }  x = h() }
    \* and a parameter that shadows a global, assigned from an inner block:
    \*   x = 5  def s(x) { { x = 9  fresh = 1 }  return x }  w = s(2)
    EnvironmentPrograms ==
      LET T == LiteralExpr(Bool(TRUE))
          Ret == ReturnStmt(TRUE, N(1))
          Oops == VarAssignStmt("z", V("nowhere"))
          Init(body) == <<FuncDefStmt("init", <<>>, body, "closed")>>
          X(name) == VarAssignStmt("x", Call0(name))
      IN { <<BlockStmt(<<
               FuncDefStmt("f", <<>>,
                 <<WhileStmt(T, <<MaybeStmt(<<Ret>>, FALSE, <<>>)>>)>>, "closed"),
               X("f")>>)>>,
           <<BlockStmt(<<
               FuncDefStmt("g", <<>>, <<BlockStmt(<<Oops>>)>>, "closed"),
               MaybeStmt(<<X("g")>>, TRUE, <<PrintStmt(S("e"))>>)>>)>>,
           <<BlockStmt(<<
               ClassStmt("K", Init(<<EchoStmt(N(2), <<Ret>>)>>), "closed"), X("K")>>)>>,
           <<BlockStmt(<<ClassStmt("L", Init(<<Oops>>), "closed"), X("L")>>)>>,
           <<BlockStmt(<<IfStmt(T, <<UseStmt(Mod.bad, "m")>>, FALSE, <<>>)>>)>>,
           <<BlockStmt(<<
               FuncDefStmt("h", <<>>,
                 <<UseStmt(Mod.good, "r"), ReturnStmt(TRUE, CallExpr(GetExpr(V("r"), "f"), <<>>))>>,
                 "closed"),
               X("h")>>)>>,
           <<VarAssignStmt("x", N(5)),
             FuncDefStmt("s", <<"x">>,
               <<BlockStmt(<<VarAssignStmt("x", N(9)), VarAssignStmt("fresh", N(1))>>),
                 ReturnStmt(TRUE, V("x"))>>, "closed"),
             VarAssignStmt("w", CallExpr(V("s"), <<N(2)>>))>> }

    \*   def sub(a, b) { return a - b }   x = sub(5, 3)  /  sub(1)  /  sub(1, 2, 3)
    \*   def none() { y = 1 }   x = none()
    \*   def two() { return 1  print("late")  return 2 }   x = two()
    \*   def show() { return loc }   def caller() { loc = 5  return show() }
    \*   x = caller()
    CallPrograms ==
      LET DefSub == FuncDefStmt("sub", <<"a", "b">>,
                      <<ReturnStmt(TRUE, BinaryExpr(V("a"), "-", V("b")))>>, "closed")
          X(name, args) == VarAssignStmt("x", CallExpr(V(name), args))
      IN { <<DefSub, X("sub", <<N(5), N(3)>>)>>,
           <<DefSub, X("sub", <<N(1)>>)>>,
           <<DefSub, X("sub", <<N(1), N(2), N(3)>>)>>,
           <<FuncDefStmt("none", <<>>, <<VarAssignStmt("y", N(1))>>, "closed"),
             X("none", <<>>)>>,
           <<FuncDefStmt("two", <<>>,
               <<ReturnStmt(TRUE, N(1)), PrintStmt(S("late")), ReturnStmt(TRUE, N(2))>>,
               "closed"),
             X("two", <<>>)>>,
           <<FuncDefStmt("show", <<>>, <<ReturnStmt(TRUE, V("loc"))>>, "closed"),
             FuncDefStmt("caller", <<>>,
               <<VarAssignStmt("loc", N(5)), ReturnStmt(TRUE, Call0("show"))>>, "closed"),
             X("caller", <<>>)>> }

    \* Each program prints (l == r) == expected, or (l != r) == expected.
    \*   a = []  b = []  c = a            a == b: false   a == c: true
    \*   def f() { }  g = f  def f() { }  f == g: false   g == g: true
    \*   class A { }  B = A  class A { }  i = A()  j = A()  k = i
    \*                                    A == B: false   i == j: false   i == k: true
    \*   use @std.time as t  use @std.uuid as o  u = t
    \*                                    t == o: false   t == u: true   len == len: true
    \*   values of different types, Nil, numbers, strings and booleans
    EqualityPrograms ==
      LET Eq(l, r, expected) ==
            PrintStmt(BinaryExpr(BinaryExpr(l, "==", r), "==", LiteralExpr(Bool(expected))))
          Ne(l, r, expected) ==
            PrintStmt(BinaryExpr(BinaryExpr(l, "!=", r), "==", LiteralExpr(Bool(expected))))
          Both(l, r, equal) == <<Eq(l, r, equal), Ne(l, r, ~equal)>>
          Let(name, e) == VarAssignStmt(name, e)
          DefF == FuncDefStmt("f", <<>>, <<>>, "closed")
          DefA == ClassStmt("A", <<>>, "closed")
          nil == LiteralExpr(Nil)
          F == LiteralExpr(Bool(FALSE))
      IN { <<Let("a", ListExpr(<<>>)), Let("b", ListExpr(<<>>)), Let("c", V("a"))>>
             \o Both(V("a"), V("b"), FALSE) \o Both(V("a"), V("c"), TRUE)
             \o Both(V("a"), nil, FALSE),
           <<Let("a", ListExpr(<<N(1)>>)), Let("b", ListExpr(<<N(1)>>))>>
             \o Both(V("a"), V("b"), FALSE) \o Both(V("b"), V("b"), TRUE),
           <<DefF, Let("g", V("f")), DefF>>
             \o Both(V("f"), V("g"), FALSE) \o Both(V("g"), V("g"), TRUE)
             \o Both(V("f"), V("len"), FALSE),
           <<DefA, Let("B", V("A")), DefA, Let("i", Call0("A")), Let("j", Call0("A")),
             Let("k", V("i"))>>
             \o Both(V("A"), V("B"), FALSE) \o Both(V("i"), V("j"), FALSE)
             \o Both(V("i"), V("k"), TRUE) \o Both(V("i"), V("A"), FALSE),
           <<UseStmt(Mod.time, "t"), UseStmt(Mod.uuid, "o"), Let("u", V("t"))>>
             \o Both(V("t"), V("o"), FALSE) \o Both(V("t"), V("u"), TRUE)
             \o Both(V("len"), V("len"), TRUE) \o Both(V("len"), V("t"), FALSE),
           Both(nil, nil, TRUE) \o Both(nil, F, FALSE) \o Both(N(0), F, FALSE)
             \o Both(N(1), S("1"), FALSE) \o Both(N(1), N(1), TRUE) \o Both(N(1), N(2), FALSE)
             \o Both(S("a"), S("a"), TRUE) \o Both(S("a"), S("b"), FALSE)
             \o Both(F, F, TRUE) \o Both(F, LiteralExpr(Bool(TRUE)), FALSE) }

    \* n = 0  e = []  def r() { n = n + 1  return 7 }
    \* x = <l> or r()     (or: x = <l> and r())
    \* print(n == <number of calls of r expected>)  print(x == <value expected>)
    \* for l among nil, false, true, 0, "", e; and two right operands that would
    \* raise: y = true or 1 / 0, y = nil and nowhere.
    LogicalPrograms ==
      LET Let(name, e) == VarAssignStmt(name, e)
          Check(a, b) == PrintStmt(BinaryExpr(a, "==", b))
          Pre == <<Let("n", N(0)), Let("e", ListExpr(<<>>)),
                   FuncDefStmt("r", <<>>,
                     <<Let("n", BinaryExpr(V("n"), "+", N(1))), ReturnStmt(TRUE, N(7))>>,
                     "closed")>>
          Case(l, op, calls) ==
            Pre \o <<Let("x", BinaryExpr(l, op, Call0("r"))),
                     Check(V("n"), N(IF calls THEN 1 ELSE 0)),
                     Check(V("x"), IF calls THEN N(7) ELSE l)>>
          T == LiteralExpr(Bool(TRUE))
          Falsy == {LiteralExpr(Nil), LiteralExpr(Bool(FALSE))}
          Truthy == {T, N(0), LiteralExpr(Str(<<>>)), V("e")}
      IN {Case(l, "or", TRUE) : l \in Falsy} \cup {Case(l, "or", FALSE) : l \in Truthy}
           \cup {Case(l, "and", FALSE) : l \in Falsy}
           \cup {Case(l, "and", TRUE) : l \in Truthy}
           \cup { <<Let("y", BinaryExpr(T, "or", BinaryExpr(N(1), "/", N(0)))),
                    Check(V("y"), T)>>,
                  <<Let("y", BinaryExpr(LiteralExpr(Nil), "and", V("nowhere"))),
                    Check(V("y"), LiteralExpr(Nil))>> }

    \* class C { def m() { return 1 }  def f() { return 2 } }
    \* class D { def init() { this.v = 7 }  def get() { return this.v } }
    \*   o = C()  a = o.m  b = o.m  print(a == b)  print(a == a)  r = a()  print(r)
    \*   o = C()  o.m = 5  x = o.m  print(x)  y = o.f  print(x == y)
    \*   o = C()  p = C()  a = o.f  b = p.f  print(a == b)
    \*   o = C()  x = o.zip        n = 3  n.x = 1        n = 3  x = n.y
    \*   o = D()  g = o.get  r = g()  print(r)  h = o.get  o.v = 8  r = h()  print(r)
    PropertyPrograms ==
      LET Method(name, body) == FuncDefStmt(name, <<>>, body, "closed")
          DefC == ClassStmt("C", <<Method("m", <<ReturnStmt(TRUE, N(1))>>),
                                   Method("f", <<ReturnStmt(TRUE, N(2))>>)>>, "closed")
          DefD == ClassStmt("D",
                    <<Method("init", <<ExprStmt(SetExpr(V("this"), "v", N(7)))>>),
                      Method("get", <<ReturnStmt(TRUE, GetExpr(V("this"), "v"))>>)>>,
                    "closed")
          New(name, class) == VarAssignStmt(name, Call0(class))
          Take(name, object, property) == VarAssignStmt(name, GetExpr(V(object), property))
          Same(left, right) == PrintStmt(BinaryExpr(V(left), "==", V(right)))
      IN { <<DefC, New("o", "C"), Take("a", "o", "m"), Take("b", "o", "m"),
             Same("a", "b"), Same("a", "a"), VarAssignStmt("r", Call0("a")),
             PrintStmt(V("r"))>>,
           <<DefC, New("o", "C"), ExprStmt(SetExpr(V("o"), "m", N(5))),
             Take("x", "o", "m"), PrintStmt(V("x")), Take("y", "o", "f"),
             Same("x", "y")>>,
           <<DefC, New("o", "C"), New("p", "C"), Take("a", "o", "f"),
             Take("b", "p", "f"), Same("a", "b")>>,
           <<DefC, New("o", "C"), Take("x", "o", "zip")>>,
           <<VarAssignStmt("n", N(3)), ExprStmt(SetExpr(V("n"), "x", N(1)))>>,
           <<VarAssignStmt("n", N(3)), Take("x", "n", "y")>>,
           <<DefD, New("o", "D"), Take("g", "o", "get"), VarAssignStmt("r", Call0("g")),
             PrintStmt(V("r")), Take("h", "o", "get"),
             ExprStmt(SetExpr(V("o"), "v", N(8))), VarAssignStmt("r", Call0("h")),
             PrintStmt(V("r"))>> }

    \* After l = [1, 2], or use @std.uuid as m, one of
    \*   print(l[0])  l[1] = 9  print(l[1])  print(l[0])      print(l[2])
    \*   l[2] = 5     print(l[-1])    l[-1] = 5    print(l[-0.5])    l[-0.5] = 7
    \*   l[1.5] = 7   print(l[1.5])   print(l["a"])    l["a"] = 1    l[0] = nowhere
    \*   print(m["zip"])   m["k"] = 1  print(m["k"])  m["k"] = 2  print(m["k"])
    \*   m["stringify"] = 3  print(m["stringify"])    print(m[1])    m[1] = 2
    \*   n = 3  print(n[0])       n = 3  n[0] = 1
    \* each followed by print("end").
    IndexPrograms ==
      LET DefL == VarAssignStmt("l", ListExpr(<<N(1), N(2)>>))
          UseM == UseStmt(Mod.uuid, "m")
          DefN == VarAssignStmt("n", N(3))
          H(h) == LiteralExpr(Halves(h))
          Minus(e) == UnaryExpr("-", e)
          Read(name, index) == PrintStmt(IndexExpr(V(name), index))
          Write(name, index, value) == ExprStmt(IndexSetExpr(V(name), index, value))
          End == PrintStmt(S("end"))
      IN { <<DefL, Read("l", N(0)), Write("l", N(1), N(9)), Read("l", N(1)),
             Read("l", N(0)), End>>,
           <<DefL, Read("l", N(2)), End>>,
           <<DefL, Write("l", N(2), N(5)), End>>,
           <<DefL, Read("l", Minus(N(1))), End>>,
           <<DefL, Write("l", Minus(N(1)), N(5)), End>>,
           <<DefL, Read("l", Minus(H(1))), End>>,
           <<DefL, Write("l", Minus(H(1)), N(7)), End>>,
           <<DefL, Write("l", H(3), N(7)), End>>,
           <<DefL, Read("l", H(3)), End>>,
           <<DefL, Read("l", S("a")), End>>,
           <<DefL, Write("l", S("a"), N(1)), End>>,
           <<DefL, Write("l", N(0), V("nowhere")), End>>,
           <<UseM, Read("m", S("zip")), End>>,
           <<UseM, Write("m", S("k"), N(1)), Read("m", S("k")),
             Write("m", S("k"), N(2)), Read("m", S("k")), End>>,
           <<UseM, Write("m", S("stringify"), N(3)), Read("m", S("stringify")), End>>,
           <<UseM, Read("m", N(1)), End>>,
           <<UseM, Write("m", N(1), N(2)), End>>,
           <<DefN, Read("n", N(0)), End>>,
           <<DefN, Write("n", N(0), N(1)), End>> }

    \* echo count { print("x")  t = 7 }  print("end")  for count one of
    \*   0   0.5   2   2.5   -1   -0.5   "a"   nil   nowhere
    \* and  n = 2  echo n { n = n + 1  print(n) }  print("end")
    EchoPrograms ==
      LET H(h) == LiteralExpr(Halves(h))
          Minus(e) == UnaryExpr("-", e)
          End == PrintStmt(S("end"))
      IN { <<EchoStmt(count, <<PrintStmt(S("x")), VarAssignStmt("t", N(7))>>), End>> :
             count \in {N(0), H(1), N(2), H(5), Minus(N(1)), Minus(H(1)), S("a"),
                        LiteralExpr(Nil), V("nowhere")} }
         \cup
         { <<VarAssignStmt("n", N(2)),
             EchoStmt(V("n"), <<VarAssignStmt("n", BinaryExpr(V("n"), "+", N(1))),
                                PrintStmt(V("n"))>>),
             End>> }

    \* x = 0, then one of
    \*   maybe { use @app.leak as m } otherwise { print("failed") }  print(x == 0)
    \*   maybe { use @app.leak as m } otherwise { print("failed") }  r = x()  print(r)
    \*   use @app.keep as m  print(x == m.f)  r = x()  print(r)  maybe { print(y) } otherwise { print("no y") }
    \*   maybe { use @app.bad as m } otherwise { print("failed") }  print(x)
    RetainPrograms ==
      LET Try(id) == MaybeStmt(<<UseStmt(id, "m")>>, TRUE, <<PrintStmt(S("failed"))>>)
          DefX == VarAssignStmt("x", N(0))
      IN { <<DefX, Try(Mod.leak), PrintStmt(BinaryExpr(V("x"), "==", N(0)))>>,
           <<DefX, Try(Mod.leak), VarAssignStmt("r", Call0("x")), PrintStmt(V("r"))>>,
           <<DefX, UseStmt(Mod.keep, "m"),
             PrintStmt(BinaryExpr(V("x"), "==", GetExpr(V("m"), "f"))),
             VarAssignStmt("r", Call0("x")), PrintStmt(V("r")),
             Probe("y", "no y")>>,
           <<DefX, Try(Mod.bad), PrintStmt(V("x"))>> }

    \* use @app.good as a  use @app.good as b  print(a == b)  a["k"] = 1
    \*   print(b["k"])  use @app.good as c  print(c["k"])  print(c == a)
    \* use @app.good as a  b = a  b["f"] = 2  print(a["f"])
    \* use @std.uuid as u  use @std.uuid as w  u["v4"] = 1  print(w["v4"])  print(u == w)
    \* use @app.good as a  use @app.keep as k  k["k"] = 1  print(a == k)  print(a["k"])
    SharedPrograms ==
      LET Write(name, key, value) == ExprStmt(IndexSetExpr(V(name), S(key), value))
          Read(name, key) == PrintStmt(IndexExpr(V(name), S(key)))
          Same(l, r) == PrintStmt(BinaryExpr(V(l), "==", V(r)))
      IN { <<UseStmt(Mod.good, "a"), UseStmt(Mod.good, "b"), Same("a", "b"),
             Write("a", "k", N(1)), Read("b", "k"), UseStmt(Mod.good, "c"),
             Read("c", "k"), Same("c", "a")>>,
           <<UseStmt(Mod.good, "a"), VarAssignStmt("b", V("a")), Write("b", "f", N(2)),
             Read("a", "f")>>,
           <<UseStmt(Mod.uuid, "u"), UseStmt(Mod.uuid, "w"), Write("u", "v4", N(1)),
             Read("w", "v4"), Same("u", "w")>>,
           <<UseStmt(Mod.good, "a"), UseStmt(Mod.keep, "k"), Write("k", "k", N(1)),
             Same("a", "k"), Read("a", "k")>> }

    \* @app.keep is  open def f() { return 1 }  x = f  y = 1
    \*   x = 0  use @app.keep as m  print(x == m.f)  maybe { print(y) } otherwise { print("no y") }
    \*   use @app.keep as m  maybe { print(x) } otherwise { print("no x") }
    \*   { x = 0  use @app.keep as m  print(x) }
    \*   y = 5  x = 0  use @app.keep as m  print(y)
    \*   y = 5  maybe { use @app.leak as m } otherwise { print(y) }
    GlobalsPrograms ==
      { <<VarAssignStmt("x", N(0)), UseStmt(Mod.keep, "m"),
          PrintStmt(BinaryExpr(V("x"), "==", GetExpr(V("m"), "f"))), Probe("y", "no y")>>,
        <<UseStmt(Mod.keep, "m"), Probe("x", "no x")>>,
        <<BlockStmt(<<VarAssignStmt("x", N(0)), UseStmt(Mod.keep, "m"), PrintStmt(V("x"))>>)>>,
        <<VarAssignStmt("y", N(5)), VarAssignStmt("x", N(0)), UseStmt(Mod.keep, "m"),
          PrintStmt(V("y"))>>,
        <<VarAssignStmt("y", N(5)),
          MaybeStmt(<<UseStmt(Mod.leak, "m")>>, TRUE, <<PrintStmt(V("y"))>>)>> }

    \* def f() { maybe { return 1 } otherwise { print("caught") }  print("after")  return 2 }
    \*   r = f()  print(r)
    \* def g(a) { { maybe { t = a  return t } otherwise { print("caught") } }  print("after") }
    \*   print(g(7))
    \* def h() { maybe { z = nowhere  return 1 } otherwise { return 3 }  print("after") }
    \*   print(h())
    \* def k() { maybe { maybe { return 5 } otherwise { print("caught") }  print("after") }
    \*           otherwise { print("caught") }  print("after") }   x = k()  print(x)
    \* def v() { maybe { return } otherwise { print("caught") }  print("after") }  print(v())
    MaybeReturnPrograms ==
      LET Caught == <<PrintStmt(S("caught"))>>
          After == PrintStmt(S("after"))
          Def(name, params, body) == FuncDefStmt(name, params, body, "closed")
      IN { <<Def("f", <<>>, <<MaybeStmt(<<ReturnStmt(TRUE, N(1))>>, TRUE, Caught), After,
                              ReturnStmt(TRUE, N(2))>>),
             VarAssignStmt("r", Call0("f")), PrintStmt(V("r"))>>,
           <<Def("g", <<"a">>,
                 <<BlockStmt(<<MaybeStmt(<<VarAssignStmt("t", V("a")),
                                           ReturnStmt(TRUE, V("t"))>>, TRUE, Caught)>>),
                   After>>),
             PrintStmt(CallExpr(V("g"), <<N(7)>>))>>,
           <<Def("h", <<>>, <<MaybeStmt(<<VarAssignStmt("z", V("nowhere")),
                                          ReturnStmt(TRUE, N(1))>>,
                                        TRUE, <<ReturnStmt(TRUE, N(3))>>),
                              After>>),
             PrintStmt(Call0("h"))>>,
           <<Def("k", <<>>,
                 <<MaybeStmt(<<MaybeStmt(<<ReturnStmt(TRUE, N(5))>>, TRUE, Caught), After>>,
                             TRUE, Caught),
                   After>>),
             VarAssignStmt("x", Call0("k")), PrintStmt(V("x"))>>,
           <<Def("v", <<>>, <<MaybeStmt(<<ReturnStmt(FALSE, LiteralExpr(Nil))>>, TRUE, Caught),
                              After>>),
             PrintStmt(Call0("v"))>> }
  IN
  CASE s = "cache" -> CachePrograms
    [] s = "loaderr" -> LoadErrorPrograms
    [] s = "export" -> ExportPrograms
    [] s = "closure" -> ClosurePrograms
    [] s = "loop" -> LoopPrograms
    [] s = "swap" -> SwapPrograms
    [] s = "maybe" -> MaybePrograms
    [] s = "class" -> ClassPrograms
    [] s = "return" -> ReturnPrograms
    [] s = "scope" -> EnvironmentPrograms
    [] s = "call" -> CallPrograms
    [] s = "equal" -> EqualityPrograms
    [] s = "logic" -> LogicalPrograms
    [] s = "property" -> PropertyPrograms
    [] s = "index" -> IndexPrograms
    [] s = "echo" -> EchoPrograms
    [] s = "retain" -> RetainPrograms
    [] s = "shared" -> SharedPrograms
    [] s = "globals" -> GlobalsPrograms
    [] s = "maybereturn" -> MaybeReturnPrograms
    [] s = "parse" -> {parseTokens(tokensOf(source)) : source \in Sources}

-----------------------------------------------------------------------------
(* Interpreter::run as driven by the front end                             *)

Idle == Len(stack) = 1 /\ sig.k = "none" /\ Top.pc > Len(Top.stmts)

RunProgram ==
  /\ Idle /\ nRun < MaxRuns
  /\ \E program \in programs : stack' = <<RunFrame(program)>>
  /\ nRun' = nRun + 1
  /\ lastError' = ""
  /\ UNCHANGED <<frontVars, envs, env_, maps, objects, sig, out, callLog, loaderVars, suite, programs>>

\* run: catch (const ReturnSignal &) { throw std::runtime_error(...) }
RunCatchReturn ==
  /\ Top.k = "run" /\ sig.k = "return"
  /\ sig' = RuntimeError("Return used outside of a function.")
  /\ UNCHANGED <<frontVars, envs, env_, maps, objects, stack, out, callLog, loaderVars, driverVars>>

\* An exception leaves run; the front end reports it (catch of
\* std::exception) and the interpreter stays.
RunFail ==
  /\ Top.k = "run" /\ sig.k \in {"error", "exception"}
  /\ lastError' = sig.msg
  /\ sig' = NoSignal
  /\ stack' = <<RunFrame(<<>>)>>
  /\ UNCHANGED <<frontVars, envs, env_, maps, objects, out, callLog, loaderVars, suite, programs, nRun>>

\* The interpreter as constructed (Interpreter::Interpreter)
Constructed ==
  /\ envs = <<[vals |-> GlobalNatives, enclosing |-> 0]>>
  /\ env_ = globals_
  /\ maps = <<>>
  /\ objects = <<>>
  /\ stack = <<RunFrame(<<>>)>>
  /\ sig = NoSignal
  /\ out = <<>>
  /\ moduleCache_ = [m \in {} |-> 0]
  /\ moduleAstCache_ = {}
  /\ modulesLoading_ = {}
  /\ currentExports_ = 0
  /\ currentModuleId_ = <<>>
  /\ inModuleLoad_ = FALSE
  /\ nRun = 0
  /\ bodyRuns = [m \in ModuleIds |-> 0]
  /\ bodyDone = [m \in ModuleIds |-> 0]
  /\ callLog = <<>>
  /\ lastError = ""

Init ==
  /\ Constructed
  /\ suite \in Suites
  /\ programs = Programs(suite)
  /\ front = "idle" /\ source_ = <<>> /\ tokens_ = <<>> /\ current_ = 1 /\ ast = <<>>

Next ==
  \/ RunProgram \/ RunCatchReturn \/ RunFail
  \/ ExecExpr \/ ExecIndexSet \/ ExecSet \/ ExecPrint \/ ExecVarAssign \/ ExecBlock \/ ExecIf
  \/ ExecWhile \/ LoopIter \/ ExecEcho \/ EchoIter \/ ExecReturn
  \/ ExecFuncDef \/ ExecClass \/ ExecSwap
  \/ ExecMaybe \/ MaybeCatch \/ MaybeExit
  \/ ExecModule \/ ExecUse \/ LoadFinish \/ LoadUnwind
  \/ ExecLogical \/ ExecCall \/ CallDangling \/ CallReturn \/ InitReturn \/ BlockExit \/ BlockUnwind \/ Propagate

Spec == Init /\ [][Next]_vars

\* The evaluator is one thread that always takes its next step.
FairSpec == Spec /\ WF_vars(Next)

-----------------------------------------------------------------------------
(* The front end (main.cpp): Lexer::scanTokens on a source text, then      *)
(* Parser::parse, one step for each iteration of its loop.                 *)

runVars == <<envs, env_, maps, objects, stack, sig, out, callLog, loaderVars>>

\* auto tokens = lexer.scanTokens();
ScanTokens ==
  /\ front = "lex"
  /\ scanTokens(source_).ok
  /\ tokens_' = scanTokens(source_).tokens
  /\ front' = "parse"
  /\ UNCHANGED <<runVars, driverVars, source_, current_, ast>>

\* scanTokens throws; main reports the error (catch of std::exception)
ScanFail ==
  /\ front = "lex"
  /\ ~scanTokens(source_).ok
  /\ lastError' = scanTokens(source_).message
  /\ front' = "failed"
  /\ UNCHANGED <<runVars, suite, programs, nRun, source_, tokens_, current_, ast>>

\* parse: stmts.push_back(declaration())
ParseDeclaration ==
  /\ front = "parse"
  /\ tokens_[current_].type # "Eof"
  /\ declaration(tokens_, current_).ok
  /\ ast' = Append(ast, declaration(tokens_, current_).v)
  /\ current_' = declaration(tokens_, current_).p
  /\ UNCHANGED <<runVars, driverVars, front, source_, tokens_>>

\* parse: catch (const ParseError &) { synchronize(); }
ParseSynchronize ==
  /\ front = "parse"
  /\ tokens_[current_].type # "Eof"
  /\ ~declaration(tokens_, current_).ok
  /\ current_' = synchronize(tokens_, declaration(tokens_, current_).p)
  /\ UNCHANGED <<runVars, driverVars, front, source_, tokens_, ast>>

\* parse: return stmts
ParseReturn ==
  /\ front = "parse"
  /\ tokens_[current_].type = "Eof"
  /\ front' = "done"
  /\ UNCHANGED <<runVars, driverVars, source_, tokens_, current_, ast>>

FrontInit ==
  LET
    \* Source texts of at most MaxSource characters.
    SourceTexts ==
      UNION {[1..n -> {"\"", "\\", "n", "q"}] : n \in 0..MaxSource}
    \* Token sequences of at most MaxPieces pieces, Eof at the end.
    TokenSequences ==
      LET T(type) == Token(type, type)
          Id(name) == Token("Identifier", name)
          Text(x) == Token("String", <<"\"", x, "\"">>)
          Pieces ==
            { <<T("Open")>>, <<T("Closed")>>, <<T("Semicolon")>>, <<T("RightBrace")>>,
              <<T("LeftParen")>>, <<T("Equal")>>, <<Id("x")>>, <<Text("a")>>,
              <<T("Def"), Id("f"), T("LeftParen"), T("RightParen"), T("LeftBrace"),
                T("RightBrace")>>,
              <<T("Class"), Id("C"), T("LeftBrace"), T("RightBrace")>>,
              <<T("Print"), T("LeftParen"), Text("a"), T("RightParen")>> }
          RECURSIVE join(_)
          join(pieces) == IF pieces = <<>> THEN <<Token("Eof", "")>>
                          ELSE Head(pieces) \o join(Tail(pieces))
      IN {join(pieces) : pieces \in UNION {[1..n -> Pieces] : n \in 0..MaxPieces}}
  IN
  /\ Constructed
  /\ suite = "parse"
  /\ programs = {}
  /\ \/ front = "lex" /\ source_ \in SourceTexts /\ tokens_ = <<>>
     \/ front = "parse" /\ source_ = <<>> /\ tokens_ \in TokenSequences
  /\ current_ = 1
  /\ ast = <<>>

FrontNext ==
  \/ ScanTokens \/ ScanFail
  \/ ParseDeclaration \/ ParseSynchronize \/ ParseReturn

FrontSpec == FrontInit /\ [][FrontNext]_vars

\* The front end is one thread that always takes its next step.
FairFrontSpec == FrontSpec /\ WF_vars(FrontNext)

-----------------------------------------------------------------------------
(* Properties.                                                             *)

\* A load of moduleId is in progress: loadModule(moduleId) is on the C++ stack.
InProgress(moduleId) ==
  \E i \in DOMAIN stack : stack[i].k = "load" /\ stack[i].moduleId = moduleId

\* The printed values, as the words the programs print.
Printed(word) == Str(<<word>>)

-----------------------------------------------------------------------------
\* C1 as stated: for every moduleId the module body is executed at most
\* once in the interpreter's lifetime.
BodyExecutedAtMostOnce == \A m \in ModuleIds : bodyRuns[m] <= 1

\* C1, amended: for every moduleId the module body runs to its end at most
\* once; a cache entry, once made, is never replaced; once a moduleId is
\* cached its body is never started again; and a use of a cached moduleId
\* binds the alias to the cached export map and goes on to the next
\* statement without starting any module body.
ModuleCaching ==
  /\ [](\A m \in ModuleIds : bodyDone[m] <= 1)
  /\ [][\A m \in DOMAIN moduleCache_ :
          /\ m \in DOMAIN moduleCache_'
          /\ moduleCache_'[m] = moduleCache_[m]
          /\ bodyRuns'[m] = bodyRuns[m]]_vars
  /\ [][(HasCur /\ Cur.k = "use" /\ Cur.moduleId \in DOMAIN moduleCache_) =>
          /\ get(envs', env_, Cur.alias) = Ok(MapPtr(moduleCache_[Cur.moduleId]))
          /\ stack' = Advance
          /\ sig' = NoSignal
          /\ bodyRuns' = bodyRuns]_vars

\* One module body ran once and two aliases are bound to its one export map.
ModuleCachingWitness ==
  /\ bodyRuns[Mod.good] = 1
  /\ Mod.good \in DOMAIN moduleCache_
  /\ get(envs, globals_, "m") = Ok(MapPtr(moduleCache_[Mod.good]))
  /\ get(envs, globals_, "n") = Ok(MapPtr(moduleCache_[Mod.good]))

-----------------------------------------------------------------------------
\* C2: a use of a moduleId whose load is in progress throws "Cyclic import
\* detected" without starting a load; no moduleId is being loaded twice at
\* once; and every load that starts ends.
CyclicImportDetection ==
  /\ [][(HasCur /\ Cur.k = "use" /\ InProgress(Cur.moduleId)) =>
          /\ sig' = RuntimeError("Cyclic import detected")
          /\ stack' = stack
          /\ bodyRuns' = bodyRuns]_vars
  /\ [](\A i, j \in DOMAIN stack :
          (stack[i].k = "load" /\ stack[j].k = "load"
             /\ stack[i].moduleId = stack[j].moduleId) => i = j)
  /\ (\E m \in ModuleIds : InProgress(m)) ~> (\A m \in ModuleIds : ~InProgress(m))

\* The chain a -> b -> a has just been refused: both loads are on the stack
\* and the error is in flight.
CyclicImportWitness ==
  /\ InProgress(Mod.a) /\ InProgress(Mod.b)
  /\ Top.k = "load" /\ Top.moduleId = Mod.b
  /\ sig = RuntimeError("Cyclic import detected")

-----------------------------------------------------------------------------
\* C3 as stated: whenever a load has failed, its moduleId is no longer in
\* the loading set; so the loading set holds only moduleIds whose load is
\* on the stack.
LoadingSetCleanup == \A m \in modulesLoading_ : InProgress(m)

-----------------------------------------------------------------------------
\* A module file one of whose declarations raises ParseError.
HasParseError(moduleId) ==
  LET path == resolveModulePath(moduleId) IN
  /\ path.ok
  /\ \E i \in DOMAIN FileSystem[path.v].decls : ~FileSystem[path.v].decls[i].ok

\* C4 as stated: a module whose source has a parse error fails to load:
\* its body is never executed and it is never cached.
ParseErrorFailsLoad ==
  \A m \in ModuleIds :
    HasParseError(m) => (bodyRuns[m] = 0 /\ m \notin DOMAIN moduleCache_)

-----------------------------------------------------------------------------
\* The names the programs of this model bind.
Names ==
  {"loc", "y", "b", "m", "i", "imp", "t", "f", "g", "h", "probe"}
    \cup DOMAIN GlobalNatives

\* C5: while a module's top level executes, its environment is a child of
\* the global environment: the built-ins are visible, and a name is visible
\* only if the module itself or the global environment binds it, whatever
\* the importer's local frames bind.
ModuleIsolation ==
  (Top.k = "load") =>
    /\ envs[env_].enclosing = globals_
    /\ \A name \in DOMAIN GlobalNatives : has(envs, env_, name)
    /\ \A name \in Names :
         has(envs, env_, name) =>
           (name \in DOMAIN envs[env_].vals \/ name \in DOMAIN envs[globals_].vals)

\* A module imported from a local frame that binds loc has looked loc up,
\* found it undefined, and bound a built-in to a name of its own.
ModuleIsolationWitness ==
  /\ Top.k = "load" /\ Top.moduleId = Mod.probe
  /\ Top.savedEnv # globals_
  /\ has(envs, Top.savedEnv, "loc")
  /\ ~has(envs, env_, "loc")
  /\ out # <<>> /\ out[Len(out)] = Printed("undef")
  /\ get(envs, env_, "b") = Ok(GlobalNatives["len"])

-----------------------------------------------------------------------------
\* The top-level FuncDef and ClassStmt names of a module's program that
\* carry open visibility.
OpenNames(moduleId) ==
  LET program == parse(FileSystem[resolveModulePath(moduleId).v].decls) IN
  {program[i].name : i \in {j \in DOMAIN program :
                              /\ program[j].k \in {"def", "class"}
                              /\ program[j].visibility = "open"}}

\* C6: the export map a load puts in the cache holds exactly the names of its
\* open top-level functions and classes, and the native bindings injected
\* for its moduleId.
ExportVisibility ==
  [][\A m \in DOMAIN moduleCache_' :
       m \notin DOMAIN moduleCache_ =>
         DOMAIN maps'[moduleCache_'[m]].values =
           OpenNames(m) \cup DOMAIN injectNativeNatives(m, EmptyVals)]_vars

\* A module with open and closed functions and classes, a variable, a
\* nested open function and native bindings has been loaded.
ExportVisibilityWitness ==
  /\ Mod.time \in DOMAIN moduleCache_
  /\ DOMAIN maps[moduleCache_[Mod.time]].values = {"wait", "Clock", "now", "sleep"}

-----------------------------------------------------------------------------
\* C7: the k-th call of a counter closure returns k, counting only the
\* calls of that same closure, and two calls of make return closures over
\* different environments.
ClosureCapture ==
  \A k \in DOMAIN callLog :
    /\ callLog[k].name = "inc" =>
         callLog[k].value =
           Num(Cardinality({j \in 1..k : /\ callLog[j].name = "inc"
                                         /\ callLog[j].closure = callLog[k].closure}))
    /\ callLog[k].name = "make" =>
         /\ callLog[k].value.t = "fn"
         /\ \A j \in 1..(k - 1) :
              callLog[j].name = "make" =>
                callLog[j].value.closure # callLog[k].value.closure

\* One closure returned 1 then 2 while another, called in between,
\* returned 1.
ClosureCaptureWitness ==
  \E a, b, c \in DOMAIN callLog :
    /\ a < b /\ b < c
    /\ callLog[a].name = "inc" /\ callLog[b].name = "inc" /\ callLog[c].name = "inc"
    /\ callLog[a].closure = callLog[c].closure
    /\ callLog[a].closure # callLog[b].closure
    /\ callLog[a].value = Num(1) /\ callLog[b].value = Num(1)
    /\ callLog[c].value = Num(2)

-----------------------------------------------------------------------------
\* A while, until or echo loop is running.
InLoop == \E i \in DOMAIN stack : stack[i].k \in {"loop", "echo"}

\* An iteration's body is about to execute its first statement.
IterationStart ==
  /\ Len(stack) >= 2
  /\ Top.k = "block" /\ Top.pc = 1
  /\ stack[Len(stack) - 1].k \in {"loop", "echo"}

\* C8: in programs that bind the name t only inside loop bodies, t is
\* undefined whenever no loop is running, and every iteration starts in a
\* fresh empty environment whose parent is the loop's scope, in which t is
\* undefined.
LoopScopeIsolation ==
  (suite = "loop") =>
    /\ ~InLoop => ~has(envs, env_, "t")
    /\ IterationStart =>
         /\ envs[env_].vals = EmptyVals
         /\ envs[env_].enclosing = Top.previous
         /\ ~has(envs, env_, "t")

\* A while loop bound t in each of its two iterations; each iteration and
\* the code after the loop found t undefined.
LoopScopeWitness ==
  /\ suite = "loop" /\ Idle /\ nRun = 1
  /\ has(envs, globals_, "i")
  /\ out = <<Printed("fresh"), Printed("fresh"), Printed("gone")>>

-----------------------------------------------------------------------------
\* The environment of the chain from e that binds name (0 if none does).
RECURSIVE owner(_, _, _)
owner(es, e, name) ==
  IF name \in DOMAIN es[e].vals THEN e
  ELSE IF es[e].enclosing # 0 THEN owner(es, es[e].enclosing, name)
  ELSE 0

\* C9: a swap of two defined names leaves each bound to the value the
\* other had, creates no binding and changes no other binding; a swap with
\* an undefined name throws and changes nothing.
SwapSemantics ==
  [][(HasCur /\ Cur.k = "swap") =>
       IF has(envs, env_, Cur.left) /\ has(envs, env_, Cur.right)
       THEN /\ sig' = NoSignal
            /\ get(envs', env_, Cur.left) = get(envs, env_, Cur.right)
            /\ get(envs', env_, Cur.right) = get(envs, env_, Cur.left)
            /\ Len(envs') = Len(envs)
            /\ \A i \in DOMAIN envs :
                 /\ envs'[i].enclosing = envs[i].enclosing
                 /\ DOMAIN envs'[i].vals = DOMAIN envs[i].vals
                 /\ \A name \in DOMAIN envs[i].vals :
                      (~(i = owner(envs, env_, Cur.left) /\ name = Cur.left)
                         /\ ~(i = owner(envs, env_, Cur.right) /\ name = Cur.right))
                        => envs'[i].vals[name] = envs[i].vals[name]
       ELSE /\ sig'.k = "error"
            /\ envs' = envs]_vars

\* A global and a block-local name have been swapped: the global holds the
\* local's value and the local, still in its own frame, holds the global's.
SwapWitness ==
  /\ suite = "swap"
  /\ env_ # globals_
  /\ "c" \in DOMAIN envs[env_].vals
  /\ envs[env_].vals["c"] \in {Num(1), Num(2)}
  /\ envs[globals_].vals["a"] = Num(3)

-----------------------------------------------------------------------------
\* What one maybe program prints: the try block up to its failure, the
\* otherwise block if there is one, then the statement after the maybe.
MaybeOutputs == {
  <<Printed("t1"), Printed("caught"), Printed("after")>>,
  <<Printed("u1"), Printed("after")>>,
  <<Printed("n1"), Printed("t2"), Printed("after")>> }

RECURSIVE IsMaybeOutput(_)
IsMaybeOutput(o) ==
  \/ o = <<>>
  \/ \E seg \in MaybeOutputs :
       /\ Len(seg) <= Len(o)
       /\ SubSeq(o, 1, Len(seg)) = seg
       /\ IsMaybeOutput(SubSeq(o, Len(seg) + 1, Len(o)))

\* C10 as stated: an error raised anywhere in a try block, also inside a
\* function it calls, is caught by the maybe: the rest of the try block is
\* skipped, the otherwise block, if present, runs once, and execution goes
\* on after the maybe; a try block that raises nothing skips the otherwise
\* block.  So a program whose failing statements all stand in try blocks
\* ends without an error, having printed what MaybeOutputs lists.
MaybeOtherwise ==
  (suite = "maybe" /\ Idle) => (lastError = "" /\ IsMaybeOutput(out))

\* C10 restricted to the errors thrown as std::runtime_error: the maybe
\* catches the error, runs the otherwise block, if present, in a fresh
\* environment whose parent is the maybe's scope, and goes on; a try block
\* that ends normally skips the otherwise block; and the programs that
\* call no native of @std.uuid end without an error.
MaybeCatchesRuntimeErrors ==
  /\ [][(Top.k = "maybe" /\ Top.phase = "try" /\ sig.k = "error") =>
          /\ sig' = NoSignal
          /\ IF Top.hasOtherwise
             THEN /\ stack' = Append([stack EXCEPT ![Len(stack)].phase = "otherwise"],
                                     BlockFrame(Top.otherwiseBlock, env_))
                  /\ env_' = Len(envs) + 1
                  /\ envs' = Append(envs, Environment(env_))
             ELSE /\ stack' = Pop
                  /\ env_' = env_
                  /\ envs' = envs]_vars
  /\ [][(Top.k = "maybe" /\ sig.k = "none") =>
          (stack' = Pop /\ out' = out /\ env_' = env_)]_vars
  /\ []((suite = "maybe" /\ Idle /\ Mod.uuid \notin DOMAIN moduleCache_) =>
         (lastError = "" /\ IsMaybeOutput(out)))

-----------------------------------------------------------------------------
\* C11 as stated: a lex or parse failure of a module that a try block
\* loads is not suppressed by the maybe and does not run its otherwise
\* block: the otherwise block of a maybe whose try block loads a module
\* with a lex error, or with a parse error, prints nothing.
LexParseErrorsEscapeMaybe ==
  \A i \in DOMAIN out :
    out[i] \notin {Printed("lexcaught"), Printed("perrcaught")}

\* The class call the evaluator is about to perform, if any.
AtClassCall ==
  /\ HasCur /\ IsCallStmt(Cur) /\ Cur.e.k = "call"
  /\ evaluate(envs, maps, env_, Cur.e.callee).ok
  /\ evaluate(envs, maps, env_, Cur.e.callee).v.t = "class"
  /\ evaluateArgs(envs, maps, env_, Cur.e.args).ok

\* C12: a class without init called with arguments, and a class with init
\* called with a wrong number of arguments, raise a runtime error and run
\* nothing (init's body is not entered); every other class call creates a
\* new instance of that class, and when the call returns its value is that
\* instance, whether init ran to its end or executed `return <value>`.
ClassInstantiation ==
  [][ /\ AtClassCall =>
           LET klass == evaluate(envs, maps, env_, Cur.e.callee).v
               n == Len(evaluateArgs(envs, maps, env_, Cur.e.args).v)
               fresh == Len(objects) + 1
           IN IF ~findMethod(klass, "init")
              THEN IF n > 0
                   THEN sig'.k = "error" /\ stack' = stack /\ out' = out /\ envs' = envs
                   ELSE /\ sig'.k = "none"
                        /\ objects' = Append(objects, LumaInstance(klass))
                        /\ Cur.k = "assign" =>
                             get(envs', env_', Cur.name) = Ok(InstancePtr(fresh))
              ELSE IF n # Len(klass.methods["init"].params)
                   THEN sig'.k = "error" /\ stack' = stack /\ out' = out /\ envs' = envs
                   ELSE /\ sig'.k = "none"
                        /\ objects' = Append(objects, LumaInstance(klass))
                        /\ Len(stack') = Len(stack) + 2
                        /\ stack'[Len(stack) + 1].k = "init"
                        /\ stack'[Len(stack) + 1].instance = fresh
                        /\ stack'[Len(stack) + 2].stmts = klass.methods["init"].body
      /\ (Top.k = "init" /\ sig.k \in {"none", "return"}) =>
           /\ sig'.k = "none"
           /\ objects[Top.instance].klass = Top.klass
           /\ Top.dest.k = "assign" =>
                get(envs', env_', Top.dest.name) = Ok(InstancePtr(Top.instance))
    ]_vars

\* Made(7) has returned: init printed, executed `return 42`, and x holds
\* an instance of Made.
ClassInstantiationWitness ==
  /\ suite = "class" /\ Idle
  /\ \E i \in DOMAIN out : out[i] = Printed("init")
  /\ has(envs, globals_, "x")
  /\ get(envs, globals_, "x").v.t = "instance"
  /\ objects[get(envs, globals_, "x").v.ref].klass.name = "Made"

-----------------------------------------------------------------------------
\* C13 as stated: a return executed outside every function body is never
\* the result of a function call, is never caught by a maybe block, and is
\* always reported by run as "Return used outside of a function.".  Every
\* program of the suite "return" executes such a return and no other.
ReturnOutsideFunction ==
  suite = "return" =>
    /\ ~(sig.k = "return" /\ Top.k \in {"call", "init"})
    /\ \A i \in DOMAIN out : out[i] # Printed("retcaught")
    /\ (Idle /\ nRun > 0) => lastError = "Return used outside of a function."

\* The part of C13 the code keeps: a return outside every function body
\* that no function call is waiting on reaches run, which reports it; no
\* maybe block catches it.
ReturnReachesRun ==
  [][ /\ (sig.k = "return" /\ Top.k = "maybe") => (sig' = sig /\ stack' = Pop)
      /\ (sig.k = "return" /\ Top.k = "run") =>
           sig' = RuntimeError("Return used outside of a function.")
    ]_vars

-----------------------------------------------------------------------------
\* The environment that is current whenever the activation stack[i] is the
\* innermost one: env_ if it is, else the environment the nearest block or
\* module load above it restores when it ends.
EnvironmentOf(i) ==
  LET above == {j \in DOMAIN stack : j > i /\ stack[j].k \in {"block", "load"}} IN
  IF above = {} THEN env_
  ELSE LET j == CHOOSE x \in above : \A y \in above : x <= y IN
       IF stack[j].k = "block" THEN stack[j].previous ELSE stack[j].savedEnv

\* C14: every block and module load records the environment that was current
\* when it started and makes it current again when it ends, normally or by a
\* return signal or an error; hence every loop, maybe statement, function
\* call and class instantiation gets back the environment it started in
\* (the `entry` its activation recorded), and run always gets back the
\* global environment, in particular when it returns or throws.
EnvironmentDiscipline ==
  [][ /\ \A i \in DOMAIN stack :
           /\ stack[i].k = "run" => EnvironmentOf(i) = globals_
           /\ stack[i].k \in {"loop", "echo", "maybe", "call", "init"} =>
                EnvironmentOf(i) = stack[i].entry
      /\ (Len(stack') > Len(stack) /\ stack'[Len(stack')].k = "block") =>
           stack'[Len(stack')].previous = env_
      /\ (Len(stack') > Len(stack) /\ stack'[Len(stack')].k = "load") =>
           stack'[Len(stack')].savedEnv = env_
      /\ (Len(stack') < Len(stack) /\ Top.k = "block") => env_' = Top.previous
      /\ (Len(stack') < Len(stack) /\ Top.k = "load") => env_' = Top.savedEnv
      /\ (Len(stack') = Len(stack) /\ Top.k = Top'.k) => env_' = env_
      /\ (Top.k = "run" /\ sig.k # "none") => env_ = globals_
      /\ Idle => env_ = globals_
    ]_vars

\* An error raised in a block inside a function body has unwound to the call,
\* which was made inside a maybe block inside a block.
EnvironmentDisciplineWitness ==
  /\ Top.k = "call" /\ sig.k = "error"
  /\ Top.entry \notin {globals_, Top.function.closure}
  /\ env_ = Top.entry

-----------------------------------------------------------------------------
\* The call of a Function value the evaluator is about to perform, if any;
\* the Function's body is alive (a call through a dangling body pointer is
\* undefined).
AtFunctionCall ==
  /\ HasCur /\ IsCallStmt(Cur) /\ Cur.e.k = "call"
  /\ evaluate(envs, maps, env_, Cur.e.callee).ok
  /\ evaluate(envs, maps, env_, Cur.e.callee).v.t = "fn"
  /\ retained(objects[evaluate(envs, maps, env_, Cur.e.callee).v.id].program)
  /\ evaluateArgs(envs, maps, env_, Cur.e.args).ok

-----------------------------------------------------------------------------
\* The values bound in some environment, and some literals.
BoundValues ==
  UNION {{envs[e].vals[n] : n \in DOMAIN envs[e].vals} : e \in DOMAIN envs}
    \cup {Nil, Num(0), Num(1), Str(<<>>), Str(<<"a">>), Bool(TRUE), Bool(FALSE)}

\* Whether two values of one type refer to the same object.
SameObject(a, b) ==
  CASE a.t \in {"fn", "class"} -> a.id = b.id
    [] a.t \in {"list", "instance", "map"} -> a.ref = b.ref
    [] a.t = "native" -> a.name = b.name

\* C16: for every pair of values == and != give a Bool and no error, one
\* the negation of the other; values of different types are unequal; Nil
\* equals Nil; numbers, strings and booleans are equal when their values
\* are; functions, lists, classes, instances, maps and natives are equal
\* exactly when they are the same object.  Every comparison the programs
\* of the suite "equal" print has the expected result: two list literals
\* evaluated separately are unequal, a list reached through two names is
\* equal to itself, and likewise for functions, classes, instances and maps.
Equality ==
  /\ \A a, b \in BoundValues :
       LET eq == binaryOp("==", a, b)
           ne == binaryOp("!=", a, b)
       IN /\ eq.ok /\ ne.ok
          /\ eq.v.t = "bool" /\ ne.v = Bool(~eq.v.v)
          /\ eq.v.v = IF a.t # b.t THEN FALSE
                      ELSE IF a.t = "nil" THEN TRUE
                      ELSE IF a.t \in {"num", "str", "bool"} THEN a.v = b.v
                      ELSE SameObject(a, b)
  /\ suite = "equal" => (lastError = "" /\ \A i \in DOMAIN out : out[i] = Bool(TRUE))

\* f and g are two Function objects with the same contents, and all four
\* comparisons of them have been printed.
EqualityWitness ==
  /\ suite = "equal" /\ Idle /\ Len(out) >= 4
  /\ has(envs, globals_, "f") /\ has(envs, globals_, "g")
  /\ get(envs, globals_, "f").v.id # get(envs, globals_, "g").v.id
  /\ [get(envs, globals_, "f").v EXCEPT !.id = 0]
       = [get(envs, globals_, "g").v EXCEPT !.id = 0]

-----------------------------------------------------------------------------
\* An expression whose evaluation raises.
Raising == BinaryExpr(N(1), "/", N(0))

\* C17: when l is truthy `l or r` has the value of l and r is not evaluated:
\* no call of r starts, nothing is printed or bound by it and no error of r
\* is raised; the same for `l and r` when l is falsy; in the other cases r
\* is evaluated next, once, and its value is the value of the expression.
\* Falsy are Nil and false only: 0, "" and the empty list are truthy.
ShortCircuit ==
  [][ /\ (HasCur /\ IsCallStmt(Cur) /\ IsLogicalCall(Cur.e)
             /\ evaluate(envs, maps, env_, Cur.e.left).ok) =>
           LET l == evaluate(envs, maps, env_, Cur.e.left).v
               decided == IF Cur.e.op = "or" THEN l \notin {Nil, Bool(FALSE)}
                          ELSE l \in {Nil, Bool(FALSE)}
           IN IF decided
              THEN /\ stack' = Advance /\ callLog' = callLog /\ sig'.k = "none"
                   /\ Cur.k = "assign" => get(envs', env_', Cur.name) = Ok(l)
              ELSE /\ stack' = [stack EXCEPT ![Len(stack)].stmts[Top.pc].e = Cur.e.right]
                   /\ envs' = envs /\ out' = out /\ sig' = sig
      /\ \A l \in BoundValues :
           /\ evaluate(envs, maps, env_, BinaryExpr(LiteralExpr(l), "or", Raising)) =
                IF l \in {Nil, Bool(FALSE)} THEN Err("division by zero") ELSE Ok(l)
           /\ evaluate(envs, maps, env_, BinaryExpr(LiteralExpr(l), "and", Raising)) =
                IF l \in {Nil, Bool(FALSE)} THEN Ok(l) ELSE Err("division by zero")
      /\ suite = "logic" => (lastError = "" /\ \A i \in DOMAIN out : out[i] = Bool(TRUE))
    ]_vars

\* `x = 0 or r()` has run: x is 0 and both checks were printed; and in
\* another program r was called.
ShortCircuitWitness ==
  /\ suite = "logic" /\ Idle /\ Len(out) >= 4
  /\ get(envs, globals_, "x") = Ok(Num(0))
  /\ \E i \in DOMAIN callLog : callLog[i].name = "r"

-----------------------------------------------------------------------------
\* The names bound in some environment, and one bound in none.
BoundNames == UNION {DOMAIN envs[e].vals : e \in DOMAIN envs} \cup {"nowhere"}

\* The heap `after` is `before` but for the binding of name in frame f,
\* which holds value; no frame gained or lost a name.
OnlyRebinds(before, after, f, name, value) ==
  /\ Len(after) = Len(before)
  /\ \A g \in DOMAIN before :
       /\ after[g].enclosing = before[g].enclosing
       /\ DOMAIN after[g].vals = DOMAIN before[g].vals
       /\ \A n \in DOMAIN before[g].vals :
            after[g].vals[n] = IF g = f /\ n = name THEN value ELSE before[g].vals[n]

\* C18: from every environment e of every reachable heap and for every
\* name, assign changes the binding of name in the nearest frame of e's
\* chain that has it and nothing else (no frame gains a name); when no frame
\* of the chain has the name it fails with the undefined-variable error and
\* there is no new heap.
EnvironmentAssign ==
  \A e \in DOMAIN envs : \A name \in BoundNames :
    LET value == Str(<<"new">>)
        r == assign(envs, e, name, value)
        nearest == owner(envs, e, name)
    IN IF nearest = 0
       THEN r = Err("Undefined variable") /\ ~has(envs, e, name)
       ELSE r.ok /\ OnlyRebinds(envs, r.v, nearest, name, value)

\* Some frame does not bind x and the nearest frame of its chain that does
\* is neither itself nor the global frame, which binds x too.
EnvironmentAssignWitness ==
  \E e \in DOMAIN envs :
    /\ "x" \notin DOMAIN envs[e].vals
    /\ owner(envs, e, "x") \notin {0, e, globals_}
    /\ "x" \in DOMAIN envs[globals_].vals

\* C19: `name = expr` executed in the current frame F binds name in F, and
\* changes nothing else, exactly when no frame of the chain from F has
\* name; otherwise it overwrites the binding in the nearest frame that has
\* name and no frame gains a name; either way get(name) from F then gives
\* the new value.
ImplicitDefine ==
  [][ (HasCur /\ Cur.k = "assign" /\ ~IsCallStmt(Cur) /\ Cur.e.k # "list"
          /\ ~BindsMethod(Cur.e)    \* obj.m allocates the environment of `this`
          /\ evaluate(envs, maps, env_, Cur.e).ok) =>
        LET value == evaluate(envs, maps, env_, Cur.e).v
            nearest == owner(envs, env_, Cur.name)
        IN /\ IF nearest = 0
              THEN /\ DOMAIN envs'[env_].vals = DOMAIN envs[env_].vals \cup {Cur.name}
                   /\ OnlyRebinds([envs EXCEPT ![env_].vals = (Cur.name :> value) @@ @],
                                  envs', env_, Cur.name, value)
              ELSE OnlyRebinds(envs, envs', nearest, Cur.name, value)
           /\ env_' = env_
           /\ get(envs', env_, Cur.name) = Ok(value)
    ]_vars

\* Inside s(2): the block's `x = 9` overwrote the parameter x, not the
\* global x, and `fresh = 1` made a binding in the block's own frame.
ImplicitDefineWitness ==
  \E e \in DOMAIN envs :
    /\ DOMAIN envs[e].vals = {"fresh"}
    /\ envs[e].enclosing \notin {0, globals_}
    /\ envs[envs[e].enclosing].vals = ("x" :> Num(9))
    /\ get(envs, globals_, "x") = Ok(Num(5))

-----------------------------------------------------------------------------
\* The statements the well-formed declarations of a source text denote.
RECURSIVE WellFormedStatements(_)
WellFormedStatements(source) ==
  IF source = <<>> THEN <<>>
  ELSE (IF Head(source).wellFormed THEN <<Head(source).stmt>> ELSE <<>>)
         \o WellFormedStatements(Tail(source))

\* C20 as stated: the AST returned for a source text, which run is given,
\* holds the statements of the well-formed top-level declarations of that
\* text, in order, and nothing built from the tokens of a declaration that
\* failed to parse; so the program neither prints the "inner" of the
\* malformed function's body nor misses the binding made by a well-formed
\* declaration that follows a malformed one.
ParserRecovery ==
  suite = "parse" =>
    /\ stack[1].stmts \in {WellFormedStatements(source) : source \in Sources}
    /\ lastError = ""
    /\ \A i \in DOMAIN out : out[i] # Printed("inner")

\* The part of C20 the code keeps: parse never fails, and a declaration
\* that begins with a keyword synchronize stops at (def, print) is parsed
\* wherever it follows a failed declaration.
ParserResumesAtKeyword ==
  \A source \in Sources :
    \A i \in DOMAIN source :
      (source[i].wellFormed /\ source[i].tokens[1].type \in {"Def", "Print"}) =>
        \E j \in DOMAIN parseTokens(tokensOf(source)) :
          parseTokens(tokensOf(source))[j] = source[i].stmt

-----------------------------------------------------------------------------
\* C21 as stated: a declaration that starts with an Open or a Closed token
\* which is not followed by Def or Class is a parse error, so the parser
\* appends no declaration for it; and a Def or Class declaration without a
\* modifier has visibility closed.
VisibilityModifiers ==
  /\ [][(front = "parse"
           /\ tokens_[current_].type \in {"Open", "Closed"}
           /\ tokens_[current_ + 1].type \notin {"Def", "Class"}) => ast' = ast]_vars
  /\ [][(front = "parse" /\ tokens_[current_].type \in {"Def", "Class"}
           /\ ast' # ast) => ast'[Len(ast')].visibility = "closed"]_vars

\* C21 for the Open token alone, and the default: Open not followed by Def
\* or Class is a parse error; Open before Def or Class gives visibility
\* open, Closed or no modifier before them gives closed.
OpenNeedsDeclaration ==
  /\ [][(front = "parse" /\ tokens_[current_].type = "Open"
           /\ tokens_[current_ + 1].type \notin {"Def", "Class"}) => ast' = ast]_vars
  /\ [][(front = "parse" /\ ast' # ast /\ ast'[Len(ast')].k \in {"def", "class"}) =>
          ast'[Len(ast')].visibility =
            IF tokens_[current_].type = "Open" THEN "open" ELSE "closed"]_vars

-----------------------------------------------------------------------------
\* The text between the quotes of a string literal as C22 reads it: plain
\* characters and escapes (a backslash and the character after it); a
\* double quote stands in it only after a backslash.
RECURSIVE IsEscaped(_)
IsEscaped(inner) ==
  IF inner = <<>> THEN TRUE
  ELSE IF Head(inner) = "\\" THEN Len(inner) >= 2 /\ IsEscaped(SubSeq(inner, 3, Len(inner)))
  ELSE Head(inner) # "\"" /\ IsEscaped(Tail(inner))

\* The characters the text denotes.
RECURSIVE Denoted(_)
Denoted(inner) ==
  IF inner = <<>> THEN <<>>
  ELSE IF Head(inner) = "\\" THEN
         (CASE inner[2] = "n" -> <<"\n">>
            [] inner[2] = "r" -> <<"\r">>
            [] inner[2] = "t" -> <<"\t">>
            [] inner[2] = "\\" -> <<"\\">>
            [] inner[2] = "\"" -> <<"\"">>
            [] OTHER -> <<"\\", inner[2]>>) \o Denoted(SubSeq(inner, 3, Len(inner)))
  ELSE <<Head(inner)>> \o Denoted(Tail(inner))

\* source_ is one string literal
IsStringLiteral ==
  /\ Len(source_) >= 2
  /\ source_[1] = "\"" /\ source_[Len(source_)] = "\""
  /\ IsEscaped(SubSeq(source_, 2, Len(source_) - 1))

\* C22 as stated: a source text that is one string literal, escapes
\* included, is scanned and parsed to one String literal whose value has
\* each escape replaced by the character it denotes; \" does not end it.
StringEscapes ==
  IsStringLiteral =>
    /\ front # "failed"
    /\ front = "done" =>
         ast = <<ExprStmt(LiteralExpr(Str(Denoted(SubSeq(source_, 2, Len(source_) - 1)))))>>

\* C22 for the literals without the escape \": they are scanned and parsed
\* to the String literal the claim describes.
StringEscapesWithoutQuote ==
  (IsStringLiteral /\ \A i \in 2..(Len(source_) - 1) : source_[i] # "\"") =>
    /\ front # "failed"
    /\ front = "done" =>
         ast = <<ExprStmt(LiteralExpr(Str(Denoted(SubSeq(source_, 2, Len(source_) - 1)))))>>

-----------------------------------------------------------------------------
\* The Function values there are: those bound in an environment or held in
\* a field, and the methods of the classes.
FunctionValues ==
  LET held == BoundValues \cup
                UNION {{objects[o].fields[n] : n \in DOMAIN objects[o].fields} :
                         o \in {i \in DOMAIN objects : "fields" \in DOMAIN objects[i]}}
      classes == {v \in held : v.t = "class"} \cup
                   {objects[o].klass :
                      o \in {i \in DOMAIN objects : "klass" \in DOMAIN objects[i]}}
  IN {v \in held : v.t = "fn"} \cup
       UNION {{c.methods[n] : n \in DOMAIN c.methods} : c \in classes}

\* The statement to execute is name = object.property with object an instance.
AtPropertyAccess ==
  /\ HasCur /\ Cur.k = "assign" /\ Cur.e.k = "get"
  /\ evaluate(envs, maps, env_, Cur.e.object).ok
  /\ evaluate(envs, maps, env_, Cur.e.object).v.t = "instance"

\* C23: a property access on an instance gives the field of that name if
\* the instance has one, also when its class has a method of that name;
\* otherwise, if the class has the method, a new Function with the method's
\* name, parameters and body whose closure is a new environment that holds
\* only `this`, bound to the instance, and whose parent is the method's
\* closure; this Function equals (==) no Function there was before, so two
\* accesses obj.m give unequal values; otherwise the access is an error.
PropertyAccess ==
  [][AtPropertyAccess =>
       LET object == evaluate(envs, maps, env_, Cur.e.object).v
           instance == objects[object.ref]
           name == Cur.e.name
           bound == get(envs', env_, Cur.name).v
       IN IF name \in DOMAIN instance.fields
          THEN /\ get(envs', env_, Cur.name) = Ok(instance.fields[name])
               /\ Len(envs') = Len(envs) /\ objects' = objects
          ELSE IF name \in DOMAIN instance.klass.methods
          THEN LET method == instance.klass.methods[name] IN
               /\ Len(envs') = Len(envs) + 1
               /\ envs'[Len(envs')] = [vals |-> ("this" :> object),
                                       enclosing |-> method.closure]
               /\ bound.t = "fn" /\ bound.closure = Len(envs')
               /\ bound.name = method.name /\ bound.params = method.params
               /\ bound.body = method.body
               /\ \A f \in FunctionValues : ~valuesEqual(bound, f)
               /\ valuesEqual(bound, bound)
          ELSE /\ sig' = RuntimeError("Undefined property")
               /\ envs' = envs /\ objects' = objects]_vars

\* o.m has been read twice, into a and into b: two Functions with the
\* contents of m whose closures are two environments that bind `this` to
\* the same instance, and a == b has printed false.
PropertyAccessWitness ==
  /\ suite = "property"
  /\ has(envs, globals_, "a") /\ has(envs, globals_, "b") /\ has(envs, globals_, "o")
  /\ LET a == get(envs, globals_, "a").v
         b == get(envs, globals_, "b").v
         o == get(envs, globals_, "o").v
     IN /\ a.t = "fn" /\ b.t = "fn" /\ a.name = "m" /\ b.name = "m"
        /\ a.closure # b.closure
        /\ envs[a.closure].vals["this"] = o /\ envs[b.closure].vals["this"] = o
        /\ out = <<Bool(FALSE)>>

-----------------------------------------------------------------------------
\* The statement to execute is print(object[index]) or object[index] = value
\* and its operands have values.
AtIndex ==
  /\ HasCur
  /\ \/ Cur.k = "print" /\ Cur.e.k = "index"
     \/ Cur.k = "expr" /\ Cur.e.k = "indexset" /\ evaluate(envs, maps, env_, Cur.e.value).ok
  /\ evaluate(envs, maps, env_, Cur.e.object).ok
  /\ evaluate(envs, maps, env_, Cur.e.index).ok

\* What a step from AtIndex does, for the index i of a list taken as it is
\* (truncated = FALSE: i is outside 0..len-1 when i < 0 or i > len-1) or
\* as the code converts it (truncated = TRUE: i is trunc(index)).
IndexingOf(truncated) ==
  LET object == evaluate(envs, maps, env_, Cur.e.object).v
      index == evaluate(envs, maps, env_, Cur.e.index).v
      value == evaluate(envs, maps, env_, Cur.e.value).v
  IN IF object.t = "list" /\ index.t = "num" THEN
       LET elements == objects[object.ref].elements
           outside == IF truncated
                      THEN toInt(index) < 0 \/ toInt(index) >= Len(elements)
                      ELSE index.v < 0 \/ index.v > 2 * (Len(elements) - 1)
       IN IF outside THEN sig'.k = "error" /\ objects' = objects /\ out' = out
          ELSE IF truncated \/ index.v % 2 = 0 THEN
            /\ sig' = NoSignal
            /\ IF Cur.k = "expr"
               THEN objects' = [objects EXCEPT ![object.ref].elements =
                                  [n \in 1..Len(elements) |->
                                     IF n = toInt(index) + 1 THEN value ELSE elements[n]]]
               ELSE objects' = objects /\ out' = Append(out, elements[toInt(index) + 1])
          ELSE TRUE
     ELSE IF object.t = "map" /\ index.t = "str" THEN
       LET values == maps[object.ref].values IN
       IF Cur.k = "expr"
       THEN /\ sig' = NoSignal
            /\ maps' = [maps EXCEPT ![object.ref].values =
                          [n \in DOMAIN values \cup {keyOf(index)} |->
                             IF n = keyOf(index) THEN value ELSE values[n]]]
       ELSE IF keyOf(index) \in DOMAIN values
            THEN sig' = NoSignal /\ maps' = maps /\ out' = Append(out, values[keyOf(index)])
            ELSE sig'.k = "error" /\ maps' = maps /\ out' = out
     ELSE truncated => (sig'.k = "error" /\ objects' = objects /\ maps' = maps)

\* C24: reading or writing list[i] with i outside 0..len-1 raises a runtime
\* error and leaves the list unchanged; writing list[i] in range changes
\* only element i and never the length; reading map[k] for a missing string
\* key is a runtime error that leaves the map unchanged; writing map[k] for
\* a string key succeeds and inserts or overwrites exactly that key.
Indexing == [][AtIndex => IndexingOf(FALSE)]_vars

\* C24 with the index of a list read as trunc(index): that is what holds,
\* and an index that is no Number, a key that is no String and a subject
\* that is neither list nor map are runtime errors that change nothing.
IndexingTruncated == [][AtIndex => IndexingOf(TRUE)]_vars

\* l = [1, 2] and l[-0.5] has been read: the element 0 was printed.
IndexingFractionRead ==
  /\ suite = "index" /\ out = <<Num(1)>> /\ sig = NoSignal
  /\ HasCur /\ Top.pc > 2 /\ Top.stmts[2] = PrintStmt(IndexExpr(V("l"), UnaryExpr("-", LiteralExpr(Halves(1)))))

-----------------------------------------------------------------------------
\* What the step of an EchoStmt whose count has a value does, and what a
\* step of its loop does, with "negative" said of the count as it is
\* (truncated = FALSE) or of the count converted to int (truncated = TRUE).
EchoOf(truncated) ==
  /\ (HasCur /\ Cur.k = "echo" /\ evaluate(envs, maps, env_, Cur.count).ok) =>
       LET count == evaluate(envs, maps, env_, Cur.count).v
           refused == IF count.t # "num" THEN TRUE
                      ELSE IF truncated THEN toInt(count) < 0 ELSE count.v < 0
       IN IF refused
          THEN sig'.k = "error" /\ stack' = stack /\ envs' = envs /\ out' = out
          ELSE /\ sig' = NoSignal /\ envs' = envs /\ env_' = env_
               /\ stack' = Append(Advance, [k |-> "echo", body |-> Cur.body, i |-> 0,
                                             count |-> toInt(count), entry |-> env_])
  /\ (sig = NoSignal /\ Top.k = "echo") =>
       /\ env_ = Top.entry
       /\ IF Top.i < Top.count
          THEN /\ envs' = Append(envs, [vals |-> EmptyVals, enclosing |-> env_])
               /\ env_' = Len(envs')
               /\ stack' = Append([stack EXCEPT ![Len(stack)].i = @ + 1],
                                   BlockFrame(Top.body, env_))
          ELSE stack' = Pop /\ envs' = envs /\ env_' = env_

\* C25: echo count { body } raises a runtime error and executes the body
\* zero times when count is not a Number or is any negative Number; for a
\* non-negative count it executes the body trunc(count) times, each
\* repetition in a fresh child scope of the scope of the echo, and the
\* count is evaluated once, before the first repetition.
Echo == [][EchoOf(FALSE)]_vars

\* C25 with "negative" said of the truncated count: that is what holds.
EchoTruncated == [][EchoOf(TRUE)]_vars

\* echo -0.5 { print("x") t = 7 } has run to its end without an error and
\* without a repetition.
EchoNegativeFraction ==
  /\ suite = "echo" /\ nRun = 1 /\ out = <<Str(<<"end">>)>> /\ sig = NoSignal
  /\ Idle /\ Top.stmts[1].k = "echo"
  /\ Top.stmts[1].count = UnaryExpr("-", LiteralExpr(Halves(1)))

\* echo n { n = n + 1  print(n) } with n = 2 has printed 3 and 4 and ended.
EchoCountOnce ==
  /\ suite = "echo" /\ nRun = 1 /\ sig = NoSignal
  /\ out = <<Num(3), Num(4), Str(<<"end">>)>>

-----------------------------------------------------------------------------
\* The environments of the chain that starts at e.
RECURSIVE chain(_)
chain(e) == IF e = 0 THEN {} ELSE {e} \cup chain(envs[e].enclosing)

\* The values an environment chain binds, and the values a value holds.
boundIn(e) == UNION {{envs[c].vals[n] : n \in DOMAIN envs[c].vals} : c \in chain(e)}
heldBy(v) ==
  CASE v.t = "list" ->
         {objects[v.ref].elements[i] : i \in DOMAIN objects[v.ref].elements}
    [] v.t = "map" -> {maps[v.ref].values[n] : n \in DOMAIN maps[v.ref].values}
    [] v.t = "instance" ->
         {objects[v.ref].klass} \cup
           {objects[v.ref].fields[n] : n \in DOMAIN objects[v.ref].fields}
    [] v.t = "class" -> {v.methods[n] : n \in DOMAIN v.methods}
    [] v.t = "fn" -> boundIn(v.closure)
    [] OTHER -> {}

\* The values reachable from the global environment, the current
\* environment and the cached export maps.
RECURSIVE reach(_)
reach(values) ==
  LET more == values \cup UNION {heldBy(v) : v \in values}
  IN IF more = values THEN values ELSE reach(more)
Reachable ==
  reach(boundIn(globals_) \cup boundIn(env_) \cup
          {MapPtr(moduleCache_[id]) : id \in DOMAIN moduleCache_})

\* C26: every Function created while a module body executed that is still
\* reachable (from the globals, the exports, or a list, map, instance or
\* class reachable from them) has its body in a program that is retained:
\* in moduleAstCache_, or in a loadModule that has not ended.  This is said
\* of successful loads and of loads that failed part-way.
AstRetention ==
  \A v \in Reachable : v.t = "fn" => retained(objects[v.id].program)

\* C26 for the modules that loaded to their end: their programs are in
\* moduleAstCache_, and a reachable Function whose program is not retained
\* comes from a module whose load failed.
AstRetentionAfterSuccess ==
  /\ \A id \in DOMAIN moduleCache_ : retained(id)
  /\ \A v \in Reachable :
       (v.t = "fn" /\ ~retained(objects[v.id].program)) =>
         /\ objects[v.id].program \notin DOMAIN moduleCache_
         /\ bodyRuns[objects[v.id].program] > bodyDone[objects[v.id].program]

\* use @app.leak failed after its body had assigned its function f to the
\* global x: x is a Function whose body is in the destroyed program.
AstDangling ==
  /\ suite = "retain" /\ Len(stack) = 1 /\ sig = NoSignal
  /\ has(envs, globals_, "x") /\ get(envs, globals_, "x").v.t = "fn"
  /\ objects[get(envs, globals_, "x").v.id].program = Mod.leak
  /\ Mod.leak \notin moduleAstCache_

\* use @app.keep succeeded: x and m.f are the same Function, its program is
\* retained, and the call x() has returned 1.
AstRetained ==
  /\ suite = "retain" /\ Len(stack) = 1 /\ sig = NoSignal
  /\ has(envs, globals_, "x") /\ get(envs, globals_, "x").v.t = "fn"
  /\ objects[get(envs, globals_, "x").v.id].program = Mod.keep
  /\ Mod.keep \in moduleAstCache_
  /\ out = <<Bool(TRUE), Num(1)>>

-----------------------------------------------------------------------------
\* The bindings (environment, name) whose value is the Map object `map`.
aliasesOf(map) ==
  {b \in UNION {{<<e, n>> : n \in DOMAIN envs[e].vals} : e \in DOMAIN envs} :
     /\ envs[b[1]].vals[b[2]].t = "map"
     /\ valuesEqual(envs[b[1]].vals[b[2]], map)}

\* C27: the export map cached for a moduleId never changes to another
\* object; every successful use of that moduleId, the first and the cached
\* ones, binds its alias to that one Map, which is == to every alias bound
\* before; and an index-set m["k"] = v through one alias is read back as v
\* through every alias of that map, those bound by later uses included.
SharedExportMap ==
  [][/\ \A id \in DOMAIN moduleCache_ :
          id \in DOMAIN moduleCache_' /\ moduleCache_'[id] = moduleCache_[id]
     /\ (HasCur /\ Cur.k = "use" /\ Cur.moduleId \in DOMAIN moduleCache_) =>
          LET exports == MapPtr(moduleCache_[Cur.moduleId]) IN
          /\ get(envs', env_', Cur.alias) = Ok(exports)
          /\ maps' = maps
          /\ \A b \in aliasesOf(exports) :
                valuesEqual(envs'[b[1]].vals[b[2]], get(envs', env_', Cur.alias).v)
     /\ (sig = NoSignal /\ Top.k = "load" /\ Top.pc > Len(Top.stmts)) =>
          /\ Top.moduleId \in DOMAIN moduleCache_'
          /\ get(envs', env_', Top.alias) = Ok(MapPtr(moduleCache_'[Top.moduleId]))
     /\ (AtIndex /\ Cur.k = "expr"
           /\ evaluate(envs, maps, env_, Cur.e.object).v.t = "map"
           /\ evaluate(envs, maps, env_, Cur.e.index).v.t = "str") =>
          \A b \in aliasesOf(evaluate(envs, maps, env_, Cur.e.object).v) :
            evaluate(envs', maps', b[1], IndexExpr(VariableExpr(b[2]), Cur.e.index))
              = evaluate(envs, maps, env_, Cur.e.value)]_vars

\* a, b and c are aliases of @app.good, c bound after a["k"] = 1: a == b
\* was true, b["k"] and c["k"] gave 1, c == a was true.
SharedExportMapWitness ==
  /\ suite = "shared" /\ nRun = 1 /\ Idle
  /\ out = <<Str(<<"good">>), Bool(TRUE), Num(1), Num(1), Bool(TRUE)>>
  /\ get(envs, globals_, "a") = get(envs, globals_, "c")

-----------------------------------------------------------------------------
\* The statement to execute is a top-level assignment name = value of a
\* module body whose value can be evaluated.
AtModuleAssign ==
  /\ HasCur /\ Top.k = "load" /\ Cur.k = "assign" /\ ~IsCallStmt(Cur)
  /\ evaluate(envs, maps, env_, Cur.e).ok

\* C28: a top-level assignment x = v of a module body overwrites the
\* binding of x in the global environment when there is one, and creates
\* no binding in the module's frame; when x is not bound globally it binds
\* x in the module's own frame and no environment of the importer changes.
\* After the load the importer sees the first and not the second.
ModuleWritesReachGlobals ==
  /\ [][AtModuleAssign =>
          LET v == evaluate(envs, maps, env_, Cur.e).v
              frame == env_
          IN /\ IF Cur.name \in DOMAIN envs[globals_].vals
                THEN /\ envs'[globals_].vals[Cur.name] = v
                     /\ envs'[frame] = envs[frame]
                ELSE /\ envs'[frame].vals[Cur.name] = v
                     /\ \A e \in DOMAIN envs : e # frame => envs'[e] = envs[e]
             /\ Len(envs') = Len(envs)]_vars
  /\ [][(sig = NoSignal /\ Top.k = "load" /\ Top.pc > Len(Top.stmts)) =>
          \A n \in DOMAIN envs[env_].vals :
            n # Top.alias =>
              (has(envs', env_', n) <=> has(envs, Top.savedEnv, n))]_vars

\* x = 0, then use @app.keep as m: the global x is the module's function f
\* (x == m.f printed true), and y, which the module also assigned, is
\* undefined for the importer.
ModuleWritesWitness ==
  /\ suite = "globals" /\ nRun = 1 /\ Idle
  /\ out = <<Bool(TRUE), Str(<<"no y">>)>>
  /\ get(envs, globals_, "x").v.t = "fn"
  /\ ~has(envs, globals_, "y")

-----------------------------------------------------------------------------
\* C29: Parser::parse terminates on every token sequence that ends with
\* Eof; each iteration of its loop either appends one declaration or runs
\* synchronize, in both cases the position strictly increases, and the
\* position is never beyond the Eof token (the last token).  Termination:
\* while parse has not returned, it is at the Eof token, where it returns,
\* or its next iteration ends at a higher position; the positions are
\* bounded by the position of the Eof token.
ParserTermination ==
  /\ [](front \in {"parse", "done"} =>
         /\ current_ \in 1..Len(tokens_)
         /\ \A i \in 1..(current_ - 1) : tokens_[i].type # "Eof")
  /\ [][(front = "parse" /\ tokens_[current_].type # "Eof") =>
          LET d == declaration(tokens_, current_) IN
          /\ front' = "parse" /\ tokens_' = tokens_
          /\ current_' > current_
          /\ IF d.ok THEN ast' = Append(ast, d.v) /\ current_' = d.p
             ELSE ast' = ast /\ current_' = synchronize(tokens_, d.p)]_vars
  /\ [](front = "parse" =>
         \/ tokens_[current_].type = "Eof"
         \/ LET d == declaration(tokens_, current_) IN
            IF d.ok THEN d.p > current_ ELSE synchronize(tokens_, d.p) > current_)

\* C29 as a liveness property of the front end that always takes its next
\* step (FairFrontSpec): parse returns.
ParserReturns == (front = "parse") ~> (front = "done")

\* parse has returned at the Eof token after an iteration that ran
\* synchronize (no declaration starts with a semicolon) and one that
\* appended a declaration.
ParserTerminationWitness ==
  /\ front = "done" /\ current_ = Len(tokens_) /\ Len(tokens_) > 2
  /\ tokens_[1].type = "Semicolon"
  /\ Len(ast) = 1

-----------------------------------------------------------------------------
\* A function call (or init) is running.
InCall == \E i \in DOMAIN stack : stack[i].k \in {"call", "init"}

\* C30: a return executed in the try block of a maybe within a function is
\* not caught by the maybe and does not run the otherwise block: with the
\* ReturnSignal in flight the maybe, and every block, loop and maybe
\* between the return and the call, is left without executing anything,
\* each block restoring the environment it was entered from; the call then
\* ends with the returned value v, given to the statement that called, in
\* the caller's environment.  In the programs of the suite nothing is
\* printed by an otherwise block or by a statement after the maybe.
MaybeDoesNotInterceptReturn ==
  /\ [][(sig.k = "return" /\ Top.k = "maybe") =>
          /\ sig' = sig /\ stack' = Pop
          /\ envs' = envs /\ env_' = env_ /\ out' = out]_vars
  /\ [][(sig.k = "return" /\ InCall /\ Top.k \in {"block", "loop", "echo"}) =>
          /\ sig' = sig /\ stack' = Pop /\ envs' = envs /\ out' = out
          /\ env_' = IF Top.k = "block" THEN Top.previous ELSE env_]_vars
  /\ [][(sig.k = "return" /\ Top.k = "call") =>
          /\ env_ = Top.entry /\ env_' = env_
          /\ stack' = Pop
          /\ Top.dest.k = "assign" => get(envs', env_, Top.dest.name) = Ok(sig.value)
          /\ Top.dest.k = "print" => out' = Append(out, sig.value)
          /\ Top.dest.k = "return" => sig' = ReturnSignal(sig.value)
          /\ Top.dest.k # "return" => sig' = NoSignal]_vars
  /\ [](suite = "maybereturn" =>
         \A i \in DOMAIN out : out[i] \notin {Printed("caught"), Printed("after")})

\* k() returned 5 from the try block of a maybe inside the try block of a
\* maybe: x is 5, only 5 was printed, and the environment is the global one.
MaybeReturnWitness ==
  /\ suite = "maybereturn" /\ nRun = 1 /\ Idle
  /\ get(envs, globals_, "x") = Ok(Num(5))
  /\ out = <<Num(5)>>
  /\ env_ = globals_
====
